---- MODULE Spec2Model ----
(***************************************************************************)
(* A model of defopt (src/src/defopt.py, with the vendored style           *)
(* normalizer of src/lib/_defopt_napoleon.py): the parser synthesizer      *)
(* (_get_parser and the parsers it builds), the type resolver              *)
(* (_get_type_from_doc, _get_type_from_hint, _merge_signatures), the       *)
(* command-line construction of _populate_parser, the docstring field      *)
(* visitor (Visitor.visit_field), the style normalizer and the call        *)
(* wrapper of _bind_or_bind_known.                                         *)
(*                                                                         *)
(* Each component has its own variables and its own specification; a       *)
(* specification leaves the variables of the other components at their     *)
(* idle value.                                                             *)
(***************************************************************************)
EXTENDS Integers, Sequences, FiniteSets, TLC

VARIABLES
    \* ---- parser synthesizer: one _get_parser(type_, parsers) and calls of its result
    type_,      \* the type handed to _get_parser
    parsers,    \* the caller-supplied override table (opts.parsers)
    spc,        \* "new" | "built" | "failed" | "applied"
    parser,     \* what _get_parser returned (or the exception it raised)
    value,      \* the string the parser was last called with
    result,     \* what that call returned or raised
    \* ---- type resolver: signature() for one parameter, then the type checks
    \* ---- of _populate_parser
    pname,      \* the parameter's name
    annotation, \* param.annotation, as written in the def
    hint,       \* typing.get_type_hints(func)[name]
    docTok,     \* the parts of the docstring's type token, split on ' or '
    typingNames,\* whether typing forms have a __name__ (Python >= 3.10)
    rpc,        \* "new" | "hinted" | "docd" | "merged" | "synth" | "error"
    hintType,   \* the annotation of the inspect signature's parameter
    docType,    \* the annotation of the doc signature's parameter
    ann,        \* the annotation of the merged signature's parameter
    rtype,      \* the type _populate_parser goes on with
    rerr,       \* the exception raised
    \* ---- command line: run(funcs, argv=argv, parsers=cparsers)
    funcs,      \* the functions: one callable, or a list of two or more
    argv,       \* the command line's tokens
    cparsers,   \* opts.parsers
    copts,      \* the other options of run: cli_options, short, ..
    cpc,        \* "new" | "built" | "parsed" | "done" | "error"
    fi,         \* the next function _create_parser populates a parser for
    cargs,      \* for each function populated, the arguments added for it
    consumed,   \* how many tokens of argv the argument parser went through
    selected,   \* the function the command line selects (_func), 0 if none
    ns,         \* the parsed arguments of the selected function
    cresult,    \* how run ended
    cerr,       \* the exception _create_parser raised
    \* ---- docstring: _parse_docstring(doc) for one docstring
    dstyle,     \* the convention it is written in: "sphinx" | "google" | "numpy"
    dtext,      \* its paragraphs of description
    ditems,     \* the items of its sections (Google and Numpy conventions)
    dfields,    \* the entries of its field list (the canonical convention)
    dpc,        \* "raw" | "fields" | "done" | "error"
    di,         \* the next field the visitor visits
    dparams,    \* visitor.params
    draises,    \* visitor.raises
    dsig,       \* the Signature returned
    derr,       \* the exception raised
    \* ---- call wrapper: bind(func)() for one function
    braises,    \* sig.raises: the types its docstring declares with :raises:
    bfunc,      \* what the function does: "return", or the exception it raises
    bpc,        \* "new" | "bound" | "called"
    bcall,      \* what bind returned: "partial" | "wrapper"
    bresult,    \* how the call of it ended
    \* ---- style normalizer: the two passes of napoleon over one docstring
    nraw,       \* the lines of the docstring
    ndoc,       \* its lines after inspect.cleandoc
    nstyle,     \* the pass: "google" | "numpy"
    nlines,     \* self._lines: the lines not consumed yet
    nparsed,    \* self._parsed_lines
    npc,        \* "raw" | "clean" | "parsing" | "done"
    nout,       \* the lines of the normalized docstring
    \* ---- memoized entry point: threads calling signature(doc)
    tpc,        \* of each thread: "off" | "idle" | "register" | "publish" |
                \* "unregister" | "visit"
    tleft,      \* of each thread: the calls it still makes
    tdoc,       \* of each thread: the docstring of its call
    ti,         \* of each thread: the next role name of its loop
    ttree,      \* of each thread: what publish_doctree gave
    thist,      \* of each thread: the calls that returned or raised
    roleMap,    \* docutils.parsers.rst.roles._roles: the names registered
    memo,       \* the cache of functools.lru_cache: (doc, Signature) pairs
    \* ---- visitor: the walk over the blocks of one doctree
    wtree,      \* the doctree's top-level blocks
    wi,         \* the block the walk is at
    wk,         \* inside a list or a block quote: the item the walk is at, else 0
    wph,        \* "off" | "walk" | "para" | "text" | "list" | "item" | "quote" |
                \* "item_done" | "joined", or the exception the walk raised
    wcur,       \* _current_paragraph
    wparas,     \* paragraphs
    wstarts,    \* start_lines
    wits,       \* _indent_iterator_stack
    wind,       \* _indent_stack
    wtext,      \* the list text of _parse_docstring
    wdoc,       \* the doc of the Signature returned
    \* ---- signature: signature(func) for a function or a partial around one
    gfunc,      \* the callable
    gpc,        \* "new" | "inspected" | "docd" | "done" | "error"
    ginspect,   \* the annotation of the inspect signature's parameter
    gdoc,       \* the doc signature: the parameter's annotation, the raises
    gsig        \* the Signature returned, or the exception raised

synthVars ==
    <<type_, parsers, spc, parser, value, result>>

resolveVars ==
    <<pname, annotation, hint, docTok, typingNames, rpc, hintType, docType,
      ann, rtype, rerr>>

cliVars ==
    <<funcs, argv, cparsers, copts, cpc, fi, cargs, consumed, selected, ns,
      cresult, cerr>>

docVars ==
    <<dstyle, dtext, ditems, dfields, dpc, di, dparams, draises, dsig, derr>>

bindVars ==
    <<braises, bfunc, bpc, bcall, bresult>>

napVars ==
    <<nraw, ndoc, nstyle, nlines, nparsed, npc, nout>>

pipeVars ==
    <<tpc, tleft, tdoc, ti, ttree, thist, roleMap, memo>>

walkVars ==
    <<wtree, wi, wk, wph, wcur, wparas, wstarts, wits, wind, wtext, wdoc>>

sigVars ==
    <<gfunc, gpc, ginspect, gdoc, gsig>>

vars ==
    <<synthVars, resolveVars, cliVars, docVars, bindVars, napVars, pipeVars,
      walkVars, sigVars>>

\* what a step of the synthesizer leaves alone
synthOthers ==
    <<resolveVars, cliVars, docVars, bindVars, napVars, pipeVars, walkVars,
      sigVars>>

\* what a step of the resolver leaves alone
resolveOthers ==
    <<synthVars, cliVars, docVars, bindVars, napVars, pipeVars, walkVars,
      sigVars>>

\* what a step of the command line leaves alone
cliOthers ==
    <<synthVars, resolveVars, docVars, bindVars, napVars, pipeVars, walkVars,
      sigVars>>

\* what a step of the docstring parser leaves alone
docOthers ==
    <<synthVars, resolveVars, cliVars, bindVars, napVars, pipeVars, walkVars,
      sigVars>>

\* what a step of the call wrapper leaves alone
bindOthers ==
    <<synthVars, resolveVars, cliVars, docVars, napVars, pipeVars, walkVars,
      sigVars>>

\* what a step of the style normalizer leaves alone
napOthers ==
    <<synthVars, resolveVars, cliVars, docVars, bindVars, pipeVars, walkVars,
      sigVars>>

\* what a step of the memoized entry point leaves alone
pipeOthers ==
    <<synthVars, resolveVars, cliVars, docVars, bindVars, napVars, walkVars,
      sigVars>>

\* what a step of the visitor's walk leaves alone
walkOthers ==
    <<synthVars, resolveVars, cliVars, docVars, bindVars, napVars, pipeVars,
      sigVars>>

\* what a step of signature(func) leaves alone
sigOthers ==
    <<synthVars, resolveVars, cliVars, docVars, bindVars, napVars, pipeVars,
      walkVars>>

(***************************************************************************)
(* Bounds of the model.                                                    *)
(***************************************************************************)
\* the largest number of members of a Union, of values of a Literal
MaxArgs == 3

(***************************************************************************)
(* Generic helpers.                                                        *)
(***************************************************************************)
Range(s) == {s[i] : i \in 1..Len(s)}

IsInjective(s) == \A i, j \in 1..Len(s) : s[i] = s[j] => i = j

SeqsUpTo(S, lo, hi) == UNION {[1..n -> S] : n \in lo..hi}

InjSeqs(S, lo, hi) == {s \in SeqsUpTo(S, lo, hi) : IsInjective(s)}

MinOf(S) == CHOOSE m \in S : \A k \in S : m <= k

\* ''.join(parts)
RECURSIVE Concat(_)
Concat(parts) ==
    IF parts = <<>> THEN "" ELSE parts[1] \o Concat(Tail(parts))

(***************************************************************************)
(* Types.  A type is [tag, name, args]: a class (tag "scalar"), or a        *)
(* typing form over other types (List[..], Tuple[..], Union[..]) or over    *)
(* values (Literal[..]).                                                    *)
(***************************************************************************)
Sc(n) == [tag |-> "scalar", name |-> n, args |-> <<>>]

UnionOf(ts) == [tag |-> "union", name |-> "Union", args |-> ts]

LiteralOf(vs) == [tag |-> "literal", name |-> "Literal", args |-> vs]

ListOf(t) == [tag |-> "list", name |-> "List", args |-> <<t>>]

\* Tuple[t1, .., tn]
TupleOf(ts) == [tag |-> "tuple", name |-> "Tuple", args |-> ts]

\* Tuple[t, ...]
VarTupleOf(t) == [tag |-> "vartuple", name |-> "Tuple", args |-> <<t>>]

\* a typing.NamedTuple class with the given field types
NamedTupleOf(ts) == [tag |-> "namedtuple", name |-> "Pair", args |-> ts]

NoneType == Sc("NoneType")

\* Python values: [t |-> the value's class, v |-> its str()]
V(t, v) == [t |-> t, v |-> v]

NoneVal == V("NoneType", "None")

NoVal == V("", "")

\* the command-line words of the model
Tokens == {"1", "2", "a", "true", "nil", "one"}

\* the members of the Enum class Choice (test_defopt.py: Choice)
ChoiceMembers == {"one", "two"}

\* what a call returns: a value, or the exception it raised (info: the choices an
\* invalid-choice message lists)
Ok(v) == [ok |-> TRUE, val |-> v, exc |-> "", info |-> <<>>]

Raise(e) == [ok |-> FALSE, val |-> NoVal, exc |-> e, info |-> <<>>]

RaiseChoice(choices) ==
    [ok |-> FALSE, val |-> NoVal, exc |-> "ArgumentTypeError", info |-> choices]

\* Python's ==, on the values of the model: True == 1 == 1.0
IsNumber(a) == a.t \in {"int", "float", "bool"}

NumStr(a) == IF a.t = "bool" THEN (IF a.v = "True" THEN "1" ELSE "0") ELSE a.v

PyEq(a, b) ==
    IF IsNumber(a) /\ IsNumber(b) THEN NumStr(a) = NumStr(b) ELSE a = b

(***************************************************************************)
(* The built-in parsers.                                                   *)
(***************************************************************************)
\* int(string)
ParseInt(string) ==
    IF string \in {"1", "2"} THEN Ok(V("int", string)) ELSE Raise("ValueError")

\* float(string)
ParseFloat(string) ==
    IF string \in {"1", "2"} THEN Ok(V("float", string)) ELSE Raise("ValueError")

_parse_bool(string) ==
    IF string \in {"true", "1"} THEN Ok(V("bool", "True"))
    ELSE Raise("ValueError")

\* no word of Tokens holds a ':', so ast finds no Slice node in _[string]
_parse_slice(string) == Raise("ValueError")

_parse_none(string) == Raise("ValueError")

_make_enum_parser(string) ==
    IF string \in ChoiceMembers THEN Ok(V("Choice", string))
    ELSE RaiseChoice(<<"one", "two">>)

(***************************************************************************)
(* Caller-supplied parsers (the values of opts.parsers).                   *)
(***************************************************************************)
\* "nil":    test_overridden_none_parser: 'nil' -> None, else ValueError
\* "double": test_overridden_parser: int(string) * 2
\* "strict": an int parser that rejects with TypeError, which argparse also
\*           takes for a rejection (ArgumentParser._get_value)
\* "mark":   a parser that takes every string and returns a value of its own
OverrideCall(id, string) ==
    CASE id = "nil" ->
            IF string = "nil" THEN Ok(NoneVal) ELSE Raise("ValueError")
      [] id = "double" ->
            IF string = "1" THEN Ok(V("int", "2"))
            ELSE IF string = "2" THEN Ok(V("int", "4"))
            ELSE Raise("ValueError")
      [] id = "strict" ->
            IF string \in {"1", "2"} THEN Ok(V("int", string))
            ELSE Raise("TypeError")
      [] id = "mark" -> Ok(V("marked", string))
      [] OTHER -> Raise("TypeError")

ParserTables ==
    { {},
      {<<NoneType, "nil">>},
      {<<Sc("int"), "double">>},
      {<<Sc("int"), "strict">>},
      {<<NoneType, "nil">>, <<Sc("int"), "strict">>},
      {<<Sc("str"), "mark">>} }

\* key == t for a key of the dict: classes compare by identity, Union[..]
\* and Literal[..] as the sets of their arguments
KeyEq(key, t) ==
    IF key.tag = t.tag /\ t.tag \in {"union", "literal"}
    THEN {key.args[i] : i \in 1..Len(key.args)} = {t.args[i] : i \in 1..Len(t.args)}
    ELSE key = t

HasOverride(t, tbl) == \E e \in tbl : KeyEq(e[1], t)

OverrideOf(t, tbl) == (CHOOSE e \in tbl : KeyEq(e[1], t))[2]

(***************************************************************************)
(* _get_parser: the parser synthesizer.  A parser is the functools.partial *)
(* that _get_parser returns: the function it wraps (func; ov names the     *)
(* caller's function when func = "override"), its __name__, and for        *)
(* _make_union_parser and _make_literal_parser the bound child parsers     *)
(* (elems) and literal values (lits).                                      *)
(***************************************************************************)
NoParser ==
    [func |-> "", ov |-> "", name |-> <<>>, lits |-> <<>>, elems |-> <<>>,
     wrapper |-> FALSE]

\* a callable as it is: func is what it is, ov the caller's parser when func
\* is "override", name its __name__ when one was set on it
Unwrapped(func, ov) ==
    [func |-> func, ov |-> ov, name |-> <<>>, lits |-> <<>>, elems |-> <<>>,
     wrapper |-> FALSE]

\* functools.partial(..): a new object around the callable
Partial(func, ov) == [Unwrapped(func, ov) EXCEPT !.wrapper = TRUE]

Built(p) == [err |-> "", p |-> p]

Failed(e) == [err |-> e, p |-> NoParser]

\* getattr(type_, '__name__', str(type_))
TypeName(t) ==
    CASE t.tag = "scalar" -> <<t.name>>
      [] t.tag = "literal" -> <<t.name>> \o [i \in 1..Len(t.args) |-> t.args[i].v]
      [] OTHER -> <<t.name>> \o [i \in 1..Len(t.args) |-> t.args[i].name]

IsPurePath(t) == t.tag = "scalar" /\ t.name = "Path"

IsEnum(t) == t.tag = "scalar" /\ t.name = "Choice"

\* CStr is a class whose __init__ takes one parameter annotated str
_is_constructible_from_str(t) == t.tag = "scalar" /\ t.name = "CStr"

_is_union_type(t) == t.tag = "union"

\* lines 1067-1074: None, when a member, is parsed first
UnionArgsDeclared(args) == args

UnionArgs(args) ==
    IF NoneType \in Range(args)
    THEN <<NoneType>> \o SelectSeq(args, LAMBDA a : a # NoneType)
    ELSE args

\* lines 1079-1083: the infallible parsers, partial(str) and partial(<a PurePath>)
Infallible(p) == p.func \in {"str", "Path"}

RECURSIVE _get_parser(_, _), UnionElemParsers(_, _, _, _), LiteralElemParsers(_, _, _, _)
RECURSIVE UnionElemParsersAll(_, _, _, _)

\* one parser per member, whatever the parsers before it
UnionElemParsersAll(args, i, tbl, acc) ==
    IF i > Len(args) THEN [err |-> "", elems |-> acc]
    ELSE LET r == _get_parser(args[i], tbl)
         IN  IF r.err # "" THEN [err |-> r.err, elems |-> <<>>]
             ELSE UnionElemParsersAll(args, i + 1, tbl, Append(acc, r.p))

\* lines 1075-1086: one parser per member, stopping after an infallible one
UnionElemParsers(args, i, tbl, acc) ==
    IF i > Len(args) THEN [err |-> "", elems |-> acc]
    ELSE LET r == _get_parser(args[i], tbl)
         IN  IF r.err # "" THEN [err |-> r.err, elems |-> <<>>]
             ELSE IF Infallible(r.p) THEN [err |-> "", elems |-> Append(acc, r.p)]
             ELSE UnionElemParsers(args, i + 1, tbl, Append(acc, r.p))

\* line 1091: [_get_parser(type(arg), parsers) for arg in args]
LiteralElemParsers(args, i, tbl, acc) ==
    IF i > Len(args) THEN [err |-> "", elems |-> acc]
    ELSE LET r == _get_parser(Sc(args[i].t), tbl)
         IN  IF r.err # "" THEN [err |-> r.err, elems |-> <<>>]
             ELSE LiteralElemParsers(args, i + 1, tbl, Append(acc, r.p))

\* lines 1047-1095: the partial, before its __name__ is set
GetParserBody(t, tbl) ==
    IF HasOverride(t, tbl) THEN Built(Partial("override", OverrideOf(t, tbl)))
    ELSE IF t \in {Sc("str"), Sc("int"), Sc("float")} \/ IsPurePath(t)
         THEN Built(Partial(t.name, ""))
    ELSE IF t = Sc("bool") THEN Built(Partial("_parse_bool", ""))
    ELSE IF t = Sc("slice") THEN Built(Partial("_parse_slice", ""))
    ELSE IF t = NoneType THEN Built(Partial("_parse_none", ""))
    ELSE IF t = Sc("list") THEN Failed("ValueError")
    ELSE IF IsEnum(t) THEN Built(Partial("_make_enum_parser", ""))
    ELSE IF _is_constructible_from_str(t) THEN Built(Partial("ctor", ""))
    ELSE IF _is_union_type(t)
         THEN LET r == UnionElemParsers(UnionArgs(t.args), 1, tbl, <<>>)
              IN  IF r.err # "" THEN Failed(r.err)
                  ELSE Built([Partial("_make_union_parser", "")
                                EXCEPT !.elems = r.elems])
    ELSE IF t.tag = "literal"
         THEN LET r == LiteralElemParsers(t.args, 1, tbl, <<>>)
              IN  IF r.err # "" THEN Failed(r.err)
                  ELSE Built([Partial("_make_literal_parser", "")
                                EXCEPT !.elems = r.elems, !.lits = t.args])
    ELSE Failed("Exception")

\* lines 1096-1100
_get_parser(t, tbl) ==
    LET r == GetParserBody(t, tbl)
    IN  IF r.err # "" THEN r
        ELSE Built([r.p EXCEPT !.name = TypeName(t)])

(***************************************************************************)
(* Calling a synthesized parser.                                           *)
(***************************************************************************)
\* line 1198: what _make_union_parser catches from a member
UnionCaught == {"TypeError", "ValueError", "ArgumentTypeError"}

LiteralCaughtValueErrorOnly == {"ValueError"}

\* line 1182: what _make_literal_parser catches from a literal's parser
LiteralCaught == {"ValueError", "ArgumentTypeError"}

\* line 1187: map(repr, _PseudoChoices(get_args(literal)))
_PseudoChoices(items) == [i \in 1..Len(items) |-> items[i].v]

RECURSIVE Call(_, _), UnionLoop(_, _, _), LiteralLoop(_, _, _, _)

\* lines 1194-1201
UnionLoop(elems, i, string) ==
    IF i > Len(elems) THEN Raise("ValueError")
    ELSE LET r == Call(elems[i], string)
         IN  IF r.ok THEN r
             ELSE IF r.exc \in UnionCaught THEN UnionLoop(elems, i + 1, string)
             ELSE r

\* lines 1178-1187
LiteralLoop(lits, elems, i, string) ==
    IF i > Len(lits) \/ i > Len(elems) THEN RaiseChoice(_PseudoChoices(lits))
    ELSE LET r == Call(elems[i], string)
         IN  IF r.ok /\ PyEq(r.val, lits[i]) THEN Ok(lits[i])
             ELSE IF r.ok \/ r.exc \in LiteralCaught
                  THEN LiteralLoop(lits, elems, i + 1, string)
             ELSE r

_make_union_parser_FirstOnly(elems, string) ==
    IF elems = <<>> THEN Raise("ValueError") ELSE Call(elems[1], string)

_make_union_parser(elems, string) == UnionLoop(elems, 1, string)

_make_literal_parser(lits, elems, string) == LiteralLoop(lits, elems, 1, string)

Call(p, string) ==
    CASE p.func = "override" -> OverrideCall(p.ov, string)
      [] p.func = "str" -> Ok(V("str", string))
      [] p.func = "Path" -> Ok(V("Path", string))
      [] p.func = "ctor" -> Ok(V("CStr", string))
      [] p.func = "int" -> ParseInt(string)
      [] p.func = "float" -> ParseFloat(string)
      [] p.func = "_parse_bool" -> _parse_bool(string)
      [] p.func = "_parse_slice" -> _parse_slice(string)
      [] p.func = "_parse_none" -> _parse_none(string)
      [] p.func = "_make_enum_parser" -> _make_enum_parser(string)
      [] p.func = "_make_union_parser" -> _make_union_parser(p.elems, string)
      [] p.func = "_make_literal_parser" ->
            _make_literal_parser(p.lits, p.elems, string)
      [] OTHER -> Raise("TypeError")

(***************************************************************************)
(* The synthesizer as a state machine: one _get_parser, then calls of the  *)
(* parser it returned.                                                     *)
(***************************************************************************)
\* the classes of the model
ScalarNames ==
    {"str", "int", "float", "bool", "slice", "NoneType", "list", "Choice",
     "Path", "CStr", "Empty"}

\* the classes the unions of the model are made of
MemberNames == {"str", "int", "float", "NoneType", "Empty", "Choice", "Path"}

\* the values the Literals of the model are made of
LiteralValues ==
    {V("str", "a"), V("str", "1"), V("int", "1"), V("int", "2"),
     V("bool", "True"), V("Choice", "one")}

UnionTypes == {UnionOf(ts) : ts \in InjSeqs({Sc(n) : n \in MemberNames}, 2, MaxArgs)}

LiteralTypes == {LiteralOf(vs) : vs \in InjSeqs(LiteralValues, 1, MaxArgs)}

SynthTypes == {Sc(n) : n \in ScalarNames} \cup UnionTypes \cup LiteralTypes

SynthIdle ==
    /\ type_ = Sc("str")
    /\ parsers = {}
    /\ spc = "idle"
    /\ parser = Failed("")
    /\ value = ""
    /\ result = Raise("")

SynthInit ==
    /\ type_ \in SynthTypes
    /\ parsers \in ParserTables
    /\ spc = "new"
    /\ parser = Failed("")
    /\ value = ""
    /\ result = Raise("")

\* parser = _get_parser(type_, parsers)
GetParser ==
    /\ spc = "new"
    /\ parser' = _get_parser(type_, parsers)
    /\ spc' = IF parser'.err = "" THEN "built" ELSE "failed"
    /\ UNCHANGED <<type_, parsers, value, result>>
    /\ UNCHANGED synthOthers

\* parser(string), as argparse calls the type= function of an argument
CallParser(string) ==
    /\ spc \in {"built", "applied"}
    /\ value' = string
    /\ result' = Call(parser.p, string)
    /\ spc' = "applied"
    /\ UNCHANGED <<type_, parsers, parser>>
    /\ UNCHANGED synthOthers

SynthNext ==
    \/ GetParser
    \/ \E string \in Tokens : CallParser(string)

(***************************************************************************)
(* Properties of the synthesizer.                                          *)
(***************************************************************************)
\* member type t, called alone with the string: what its parser does
MemberResult(t, string) ==
    LET r == _get_parser(t, parsers)
    IN  IF r.err # "" THEN Raise(r.err) ELSE Call(r.p, string)

Accepts(t, string) == MemberResult(t, string).ok

UnionApplied == spc = "applied" /\ type_.tag = "union"

\* the accepting members of the union under test
Accepting == {i \in 1..Len(type_.args) : Accepts(type_.args[i], value)}

\* C1 as stated: the union parser returns the value of the first member, in
\* declaration order, that accepts the string, and fails only when none does.
C1_FirstAcceptingInDeclarationOrder ==
    UnionApplied =>
        IF Accepting = {} THEN ~result.ok
        ELSE result = MemberResult(type_.args[MinOf(Accepting)], value)

\* member i is tried before member j: None goes first, the others keep their
\* declared order
TriedBefore(i, j) ==
    \/ type_.args[i] = NoneType /\ type_.args[j] # NoneType
    \/ type_.args[i] # NoneType /\ type_.args[j] # NoneType /\ i < j

\* C1 amended: the union parser returns the value of the first accepting member in
\* try order (None first when it is a member, then the others as declared); it
\* fails, with ValueError, only when every member rejects the string.
C1_FirstAcceptingInTryOrder ==
    UnionApplied =>
        IF Accepting = {} THEN ~result.ok /\ result.exc = "ValueError"
        ELSE \E i \in Accepting :
                /\ \A j \in Accepting \ {i} : TriedBefore(i, j)
                /\ result = MemberResult(type_.args[i], value)

\* a union parser fell back: the member tried first rejected the string and a later
\* one produced the result
C1_Witness ==
    /\ UnionApplied
    /\ result.ok
    /\ \E i \in Accepting : \E j \in 1..Len(type_.args) :
            TriedBefore(j, i) /\ ~Accepts(type_.args[j], value)

LiteralApplied == spc = "applied" /\ type_.tag = "literal"

\* literal i of the Literal under test, tried alone on the string
LiteralResult(i, string) == MemberResult(Sc(type_.args[i].t), string)

\* the parser of literal i's own type accepts the string and gives that literal
Matches(i) ==
    LET r == LiteralResult(i, value) IN r.ok /\ PyEq(r.val, type_.args[i])

\* the parser of literal i's own type rejects the string; the parsers of defopt
\* reject with ValueError, and with ArgumentTypeError for an invalid choice
\* (lines 1157-1161)
Rejects(i) ==
    LET r == LiteralResult(i, value)
    IN  ~r.ok /\ r.exc \in {"ValueError", "ArgumentTypeError"}

\* every literal up to i was either parsed to some value or rejected
Decided(i) ==
    \A j \in 1..i : LiteralResult(j, value).ok \/ Rejects(j)

C4_WitnessInvalidChoice ==
    /\ LiteralApplied
    /\ Len(type_.args) >= 2
    /\ result = RaiseChoice([i \in 1..Len(type_.args) |-> type_.args[i].v])

UnionBuilt == spc \in {"built", "applied"} /\ type_.tag = "union"

\* the member of the union under test whose parser is the k-th one tried
\* (the partial carries its type's __name__)
MemberOf(k) ==
    CHOOSE i \in 1..Len(type_.args) :
        TypeName(type_.args[i]) = parser.p.elems[k].name

\* C13: in a union parser None's parser is tried first, whatever the position
\* of None among the members, and the other members' parsers follow in their
\* declared relative order; so a string that None's (caller-supplied) parser
\* accepts gives None's result even when a member declared before it, such as
\* str, accepts the string too.
C13_NoneFirstOthersAsDeclared ==
    UnionBuilt =>
        LET elems == parser.p.elems
        IN  /\ elems # <<>>
            /\ \A k \in 1..Len(elems) :
                    /\ \E i \in 1..Len(type_.args) :
                            TypeName(type_.args[i]) = elems[k].name
                    /\ elems[k] = _get_parser(type_.args[MemberOf(k)], parsers).p
            /\ NoneType \in Range(type_.args) =>
                    type_.args[MemberOf(1)] = NoneType
            /\ \A k, l \in 1..Len(elems) :
                    k < l /\ type_.args[MemberOf(k)] # NoneType =>
                        /\ type_.args[MemberOf(l)] # NoneType
                        /\ MemberOf(k) < MemberOf(l)
            /\ ( /\ spc = "applied"
                 /\ NoneType \in Range(type_.args)
                 /\ Accepts(NoneType, value) ) =>
                    result = MemberResult(NoneType, value)

\* Union[int, str, None] with the caller's None parser: the parsers are tried
\* in the order None, int, str, and 'nil', which str accepts, gives None
C13_Witness ==
    /\ spc = "applied"
    /\ type_ = UnionOf(<<Sc("int"), Sc("str"), NoneType>>)
    /\ HasOverride(NoneType, parsers)
    /\ [k \in 1..Len(parser.p.elems) |-> parser.p.elems[k].name]
            = << <<"NoneType">>, <<"int">>, <<"str">> >>
    /\ value = "nil"
    /\ Accepts(Sc("str"), value)
    /\ result = Ok(NoneVal)

\* member i of the union under test resolves to partial(str) or
\* partial(<a PurePath>), and every member tried before it to a parser that
\* is not one of these
FirstPassthrough(i) ==
    /\ _get_parser(type_.args[i], parsers).err = ""
    /\ Infallible(_get_parser(type_.args[i], parsers).p)
    /\ \A j \in 1..Len(type_.args) :
          TriedBefore(j, i) =>
              /\ _get_parser(type_.args[j], parsers).err = ""
              /\ ~Infallible(_get_parser(type_.args[j], parsers).p)

\* C14: once a member of a union resolves to the built-in str or path
\* passthrough, no parser is made for a member that comes after it in the try
\* order: the union parser is built even when such a member has no parser, the
\* passthrough is the last parser it holds, and the result of a call is that
\* of the passthrough or of a member tried before it.
C14_NothingAfterPassthrough ==
    (type_.tag = "union" /\ spc # "new") =>
      \A i \in 1..Len(type_.args) :
        FirstPassthrough(i) =>
          /\ spc # "failed"
          /\ parser.p.elems[Len(parser.p.elems)]
                = _get_parser(type_.args[i], parsers).p
          /\ \A j \in 1..Len(type_.args) :
                TriedBefore(i, j) =>
                    \A k \in 1..Len(parser.p.elems) :
                        parser.p.elems[k].name # TypeName(type_.args[j])
          /\ spc = "applied" =>
                /\ result.ok
                /\ \E m \in 1..Len(type_.args) :
                      /\ m = i \/ TriedBefore(m, i)
                      /\ result = MemberResult(type_.args[m], value)

\* Union[int, str, Empty], where Empty has no parser: the union parser is
\* built of int's and str's parsers and 'a' comes back as a str
C14_Witness ==
    /\ spc = "applied"
    /\ type_ = UnionOf(<<Sc("int"), Sc("str"), Sc("Empty")>>)
    /\ _get_parser(Sc("Empty"), parsers).err # ""
    /\ FirstPassthrough(2)
    /\ Len(parser.p.elems) = 2
    /\ value = "a"
    /\ result = Ok(V("str", "a"))

\* Union[Path, int]: '1' comes back as a path, int's parser is not asked
C14_WitnessPath ==
    /\ spc = "applied"
    /\ type_ = UnionOf(<<Sc("Path"), Sc("int")>>)
    /\ FirstPassthrough(1)
    /\ Len(parser.p.elems) = 1
    /\ value = "1"
    /\ result = Ok(V("Path", "1"))

\* Union[int, str, Empty] with the caller's parser for str, which is no
\* passthrough: Empty's parser is looked for, and construction fails
C14_WitnessOverriddenStr ==
    /\ spc = "failed"
    /\ type_ = UnionOf(<<Sc("int"), Sc("str"), Sc("Empty")>>)
    /\ HasOverride(Sc("str"), parsers)

(***************************************************************************)
(* The type resolver: signature(func) for one parameter of func            *)
(* (_preprocess_inspect_signature, _preprocess_doc_signature,              *)
(* _merge_signatures), then the checks _populate_parser makes on the       *)
(* merged annotation before it goes on to build the argument.              *)
(***************************************************************************)
\* the largest number of members of a structural Union, of parts of a
\* docstring type token
MaxMembers == 3

\* param.empty
NoAnnotation == [tag |-> "empty", name |-> "", args |-> <<>>]

\* the object None, as eval('None') returns it
PyNone == [tag |-> "none", name |-> "None", args |-> <<>>]

\* Sequence[t], one of the _LIST_TYPES that is not list
SequenceOf(t) == [tag |-> "list", name |-> "Sequence", args |-> <<t>>]

_is_list_like(t) == t.tag = "list"

_is_container(t) == t.tag \in {"list", "tuple", "vartuple"}

\* the exception a step raised: its class, its message up to the names it
\* quotes, the parameter it names, the type names it quotes
NoErr == [exc |-> "", msg |-> "", param |-> "", quoted |-> <<>>]

RErr(exc, msg, param, quoted) ==
    [exc |-> exc, msg |-> msg, param |-> param, quoted |-> quoted]

\* a type or the exception raised instead
RType(t) == [err |-> NoErr, t |-> t]

RFail(e) == [err |-> e, t |-> NoAnnotation]

_get_type_from_hint(h) == IF _is_list_like(h) THEN ListOf(h.args[1]) ELSE h

\* typing.Union[tuple(subtypes)]: None stands for NoneType, nested unions are
\* flattened, a member equal to an earlier one is dropped, and the union of
\* one member is that member
RECURSIVE Flatten(_), Dedup(_)
Flatten(ts) ==
    IF ts = <<>> THEN <<>>
    ELSE LET h == Head(ts)
             m == CASE h = PyNone -> <<NoneType>>
                    [] h.tag = "union" -> h.args
                    [] OTHER -> <<h>>
         IN  m \o Flatten(Tail(ts))

Dedup(ts) ==
    IF ts = <<>> THEN <<>>
    ELSE LET front == Dedup(SubSeq(ts, 1, Len(ts) - 1))
             last == ts[Len(ts)]
         IN  IF last \in Range(front) THEN front ELSE Append(front, last)

MkUnion(ts) ==
    LET members == Dedup(Flatten(ts))
    IN  IF Len(members) = 1 THEN members[1] ELSE UnionOf(members)

\* a == b for two annotations: unions compare as the sets of their members
TypeEq(a, b) ==
    IF a.tag = "union" /\ b.tag = "union"
    THEN Range(a.args) = Range(b.args)
    ELSE a = b

_get_type_from_doc(tok) ==
    IF Len(tok) > 1
    THEN LET subtypes == [i \in 1..Len(tok) |-> _get_type_from_hint(tok[i])]
         IN  IF (\E i \in 1..Len(subtypes) : _is_list_like(subtypes[i]))
                  /\ PyNone \notin Range(subtypes)
             THEN RFail(RErr("ValueError",
                             "unsupported union including container type",
                             "", <<>>))
             ELSE RType(MkUnion(subtypes))
    ELSE RType(_get_type_from_hint(tok[1]))

\* whether type_.__name__ exists: a class has one, None has none, and a
\* typing form has one from Python 3.10 on
HasName(t, names) ==
    CASE t.tag = "scalar" -> TRUE
      [] t.tag = "none" -> FALSE
      [] OTHER -> names

\* lines 546-548: the two names the conflict message quotes, in its order
ConflictQuoted(h, d) == <<(<<h.name>>), (<<d.name>>)>>

\* _merge_signatures for one parameter: h is the inspect signature's
\* annotation, d the doc signature's
_merge_signatures(pn, h, d, names) ==
    IF h # NoAnnotation /\ d # NoAnnotation /\ ~TypeEq(h, d)
    THEN IF HasName(h, names) /\ HasName(d, names)
         THEN RFail(RErr("ValueError", "conflicting types found for parameter",
                         pn, ConflictQuoted(h, d)))
         ELSE RFail(RErr("AttributeError", "__name__", "", <<>>))
    ELSE RType(IF h # NoAnnotation THEN h ELSE d)

\* a check of union members that only looks for list-like ones
AnyListLike(union_args) == \E i \in 1..Len(union_args) : _is_list_like(union_args[i])

\* line 644: any(_is_container(subtype) for subtype in union_args)
AnyContainer(union_args) == \E i \in 1..Len(union_args) : _is_container(union_args[i])

\* a _populate_parser that takes no container out of its Optional
PopulateTypeAsIs(pn, a) ==
    IF a = NoAnnotation
    THEN RFail(RErr("ValueError", "no type found for parameter", pn, <<>>))
    ELSE RType(a)

\* _populate_parser, lines 605-650, for one parameter: the type it goes on
\* with, or the error it raises
PopulateType(pn, a) ==
    IF a = NoAnnotation
    THEN RFail(RErr("ValueError", "no type found for parameter", pn, <<>>))
    ELSE LET union_args == IF _is_union_type(a) THEN a.args ELSE <<>>
             non_none == SelectSeq(union_args, LAMBDA arg : arg # NoneType)
         IN  IF AnyContainer(union_args)
             THEN IF Len(non_none) # 1
                  THEN RFail(RErr("ValueError",
                                  "unsupported union including container type",
                                  "", <<>>))
                  ELSE RType(non_none[1])
             ELSE RType(a)

\* the members of the unions of the model
Arms ==
    {Sc("int"), Sc("str"), ListOf(Sc("str")), TupleOf(<<Sc("int"), Sc("str")>>),
     NoneType}

\* the structural annotations of the model
Annotations ==
    (Arms \ {NoneType})
    \cup {Sc("float"), SequenceOf(Sc("str"))}
    \cup {UnionOf(ts) : ts \in InjSeqs(Arms, 2, MaxMembers)}

\* the parts of the docstring type tokens of the model: what eval(part) is
DocParts ==
    {Sc("int"), Sc("str"), ListOf(Sc("str")), TupleOf(<<Sc("int"), Sc("str")>>),
     PyNone}

\* the docstring type tokens of the model, split on ' or '
DocTokens ==
    InjSeqs(DocParts, 1, MaxMembers)
    \cup {<<Sc("float")>>, <<SequenceOf(Sc("str"))>>, <<Sc("int"), Sc("int")>>,
          <<UnionOf(<<Sc("int"), ListOf(Sc("str"))>>)>>,
          <<UnionOf(<<ListOf(Sc("str")), NoneType>>)>>}

ParamNames == {"foo", "bar"}

ResolveIdle ==
    /\ pname = ""
    /\ annotation = NoAnnotation
    /\ hint = NoAnnotation
    /\ docTok = <<>>
    /\ typingNames = TRUE
    /\ rpc = "idle"
    /\ hintType = NoAnnotation
    /\ docType = NoAnnotation
    /\ ann = NoAnnotation
    /\ rtype = NoAnnotation
    /\ rerr = NoErr

\* get_type_hints gives the annotation, or, before Python 3.11 and for a
\* parameter whose default is None, Optional[annotation]
ResolveInit ==
    /\ pname \in ParamNames
    /\ annotation \in Annotations \cup {NoAnnotation}
    /\ hint \in {annotation}
                \cup (IF annotation.tag \in {"empty", "union"} THEN {}
                      ELSE {MkUnion(<<annotation, NoneType>>)})
    /\ docTok \in DocTokens \cup {<<>>}
    /\ typingNames \in BOOLEAN
    /\ rpc = "new"
    /\ hintType = NoAnnotation
    /\ docType = NoAnnotation
    /\ ann = NoAnnotation
    /\ rtype = NoAnnotation
    /\ rerr = NoErr

resolveInputs == <<pname, annotation, hint, docTok, typingNames>>

\* _preprocess_inspect_signature, for the parameter
PreprocessInspect ==
    /\ rpc = "new"
    /\ hintType' =
         IF hint = NoAnnotation THEN NoAnnotation
         ELSE IF annotation # hint /\ MkUnion(<<annotation, NoneType>>) = hint
              THEN _get_type_from_hint(annotation)
              ELSE _get_type_from_hint(hint)
    /\ rpc' = "hinted"
    /\ UNCHANGED <<resolveInputs, docType, ann, rtype, rerr>>
    /\ UNCHANGED resolveOthers

\* _preprocess_doc_signature, for the parameter
PreprocessDoc ==
    /\ rpc = "hinted"
    /\ LET r == IF docTok = <<>> THEN RType(NoAnnotation)
                ELSE _get_type_from_doc(docTok)
       IN  /\ docType' = r.t
           /\ rerr' = r.err
           /\ rpc' = IF r.err = NoErr THEN "docd" ELSE "error"
    /\ UNCHANGED <<resolveInputs, hintType, ann, rtype>>
    /\ UNCHANGED resolveOthers

\* _merge_signatures, for the parameter
Merge ==
    /\ rpc = "docd"
    /\ LET r == _merge_signatures(pname, hintType, docType, typingNames)
       IN  /\ ann' = r.t
           /\ rerr' = r.err
           /\ rpc' = IF r.err = NoErr THEN "merged" ELSE "error"
    /\ UNCHANGED <<resolveInputs, hintType, docType, rtype>>
    /\ UNCHANGED resolveOthers

\* _populate_parser up to line 650, for the parameter
Populate ==
    /\ rpc = "merged"
    /\ LET r == PopulateType(pname, ann)
       IN  /\ rtype' = r.t
           /\ rerr' = r.err
           /\ rpc' = IF r.err = NoErr THEN "synth" ELSE "error"
    /\ UNCHANGED <<resolveInputs, hintType, docType, ann>>
    /\ UNCHANGED resolveOthers

ResolveNext ==
    \/ PreprocessInspect
    \/ PreprocessDoc
    \/ Merge
    \/ Populate

(***************************************************************************)
(* Properties of the type resolver.                                        *)
(***************************************************************************)
\* a type as it is written
RECURSIVE Spelling(_), SpellingAll(_, _)
Spelling(t) ==
    IF t.tag \in {"scalar", "none", "empty"} THEN <<t.name>>
    ELSE <<t.name, "[">> \o SpellingAll(t.args, ",") \o <<"]">>

SpellingAll(ts, sep) ==
    IF ts = <<>> THEN <<>>
    ELSE IF Len(ts) = 1 THEN Spelling(ts[1])
    ELSE Spelling(ts[1]) \o <<sep>> \o SpellingAll(Tail(ts), sep)

\* the merge has run: the docstring's type, if there is one, was resolved
MergeRan ==
    /\ rpc \in {"merged", "synth", "error"}
    /\ docTok # <<>> => docType # NoAnnotation

MergeFailed ==
    /\ rpc = "error"
    /\ rerr.msg \in {"conflicting types found for parameter", "__name__"}

HasDocType == docType # NoAnnotation

HasStructuralType == hintType # NoAnnotation

\* C2 (as stated): when the docstring type and the structural type reduce to
\* the same type it is used; when they differ, construction fails with an error
\* that names the parameter and quotes both spellings, the docstring's first,
\* then the structural one; when only one is present it is used; when neither
\* is, construction fails with 'no type found for parameter NAME'.
C2_ResolvedTypeOrConflict ==
    MergeRan =>
      /\ (HasDocType /\ HasStructuralType /\ TypeEq(hintType, docType))
           => ~MergeFailed /\ TypeEq(ann, docType)
      /\ (HasDocType /\ HasStructuralType /\ ~TypeEq(hintType, docType))
           => /\ MergeFailed
              /\ rerr.exc = "ValueError"
              /\ rerr.param = pname
              /\ rerr.quoted = <<SpellingAll(docTok, "or"), Spelling(annotation)>>
      /\ (HasDocType /\ ~HasStructuralType) => ~MergeFailed /\ ann = docType
      /\ (~HasDocType /\ HasStructuralType) => ~MergeFailed /\ ann = hintType
      /\ (~HasDocType /\ ~HasStructuralType)
           => /\ rpc # "synth"
              /\ rpc = "error"
                   => rerr = RErr("ValueError", "no type found for parameter",
                                  pname, <<>>)

\* the part of C2 that is about the type used, without the conflict's message
C2_ResolvedType ==
    MergeRan =>
      /\ (HasDocType /\ HasStructuralType /\ TypeEq(hintType, docType))
           => ~MergeFailed /\ TypeEq(ann, docType)
      /\ (HasDocType /\ HasStructuralType /\ ~TypeEq(hintType, docType))
           => MergeFailed
      /\ (HasDocType /\ ~HasStructuralType) => ~MergeFailed /\ ann = docType
      /\ (~HasDocType /\ HasStructuralType) => ~MergeFailed /\ ann = hintType
      /\ (~HasDocType /\ ~HasStructuralType)
           => /\ rpc # "synth"
              /\ rpc = "error"
                   => rerr = RErr("ValueError", "no type found for parameter",
                                  pname, <<>>)

\* the conflict of test_conflicting: def foo(bar: int) with ':type bar: float'
C2_ConflictReached ==
    /\ MergeFailed
    /\ annotation = Sc("int")
    /\ docTok = <<Sc("float")>>

\* a union with a container member and at least two members that are not None
BadUnion(t) ==
    /\ t.tag = "union"
    /\ \E i \in 1..Len(t.args) : t.args[i].tag \in {"list", "tuple", "vartuple"}
    /\ Len(SelectSeq(t.args, LAMBDA a : a # NoneType)) >= 2

\* the type the docstring's token declares
DocUnion == IF docTok = <<>> THEN NoAnnotation ELSE MkUnion(docTok)

\* the parameter's declared type is a union that is not supported: declared
\* structurally, in the docstring, or both ways alike
DeclaredBadUnion ==
    \/ BadUnion(annotation) /\ hint = annotation /\ docTok = <<>>
    \/ BadUnion(DocUnion) /\ annotation = NoAnnotation
    \/ BadUnion(annotation) /\ docTok # <<>> /\ TypeEq(annotation, DocUnion)

UnsupportedUnion ==
    RErr("ValueError", "unsupported union including container type", "", <<>>)

\* C10: a union type with a container-shaped member and another member that is
\* not None, declared in the docstring or structurally, is rejected with a
\* ValueError while the signature is resolved or the argument is constructed:
\* the resolver never hands it to the synthesizer, and the error it ends with
\* is that ValueError.
C10_UnionWithContainerRejected ==
    DeclaredBadUnion =>
      /\ rpc # "synth"
      /\ rpc = "error" => rerr = UnsupportedUnion

\* a structural Union[int, Tuple[int, str]] was rejected by _populate_parser
C10_Witness ==
    /\ DeclaredBadUnion
    /\ docTok = <<>>
    /\ annotation.args[2].tag = "tuple"
    /\ ann = annotation
    /\ rpc = "error"

\* a docstring 'int or list[str]' was rejected by _get_type_from_doc
C10_WitnessDoc ==
    /\ DeclaredBadUnion
    /\ annotation = NoAnnotation
    /\ docTok = <<Sc("int"), ListOf(Sc("str"))>>
    /\ rpc = "error"

\* the structural type is Optional[T], written as such, and the docstring
\* declares no type
OptionalOfOne ==
    /\ hint.tag = "union"
    /\ annotation = hint
    /\ Len(hint.args) = 2
    /\ Cardinality({i \in 1..2 : hint.args[i] = NoneType}) = 1
    /\ docTok = <<>>

\* the arm T of Optional[T]
NonNullArm == hint.args[CHOOSE i \in 1..2 : hint.args[i] # NoneType]

HasNullArm(t) == t.tag = "union" /\ NoneType \in Range(t.args)

C12_OptionalIntKeepsNone ==
    /\ rpc = "synth"
    /\ OptionalOfOne
    /\ hint = UnionOf(<<Sc("int"), NoneType>>)
    /\ rtype = UnionOf(<<Sc("int"), NoneType>>)

(***************************************************************************)
(* The command line: _create_parser populates an argument parser for       *)
(* every function (_populate_parser), the argument parser goes through     *)
(* argv, and the selected function is called with the parsed arguments.    *)
(***************************************************************************)
\* a parameter of a function: kind is "pos" (positional or keyword) or
\* "kwonly"; hint is its structural type, docTok its docstring type token
\* param.default when it is some value the model does not look at
SomeDefault == V("object", "default")

Param(name, kind, hasdefault, h, tok) ==
    [name |-> name, kind |-> kind, hasdefault |-> hasdefault, hint |-> h,
     docTok |-> tok, default |-> IF hasdefault THEN SomeDefault ELSE NoVal]

\* a parameter whose default is the value d
ParamDefault(name, kind, d, h, tok) ==
    [name |-> name, kind |-> kind, hasdefault |-> TRUE, hint |-> h,
     docTok |-> tok, default |-> d]

\* the options of run that _populate_parser looks at: short is None (given
\* FALSE) or a mapping, a set of (name, letter) pairs; add_help is
\* parser.add_help, from argparse_kwargs
Options(cli_options, short, no_negated_flags, add_help) ==
    [cli_options |-> cli_options, short |-> short,
     no_negated_flags |-> no_negated_flags, add_help |-> add_help]

ShortNone == [given |-> FALSE, map |-> {}]

ShortMap(m) == [given |-> TRUE, map |-> m]

\* the defaults of run's parameters
DefaultOptions == Options("kwonly", ShortNone, FALSE, TRUE)

\* the characters of the parameter names of the model
NameChars(name) ==
    CASE name = "foo" -> <<"f", "o", "o">>
      [] name = "fee" -> <<"f", "e", "e">>
      [] name = "bar" -> <<"b", "a", "r">>
      [] name = "baz" -> <<"b", "a", "z">>
      [] name = "hat" -> <<"h", "a", "t">>
      [] name = "a_b" -> <<"a", "_", "b">>

\* name.replace('_', '-')
Dashed(name) ==
    Concat([i \in DOMAIN NameChars(name) |->
                 IF NameChars(name)[i] = "_" THEN "-" ELSE NameChars(name)[i]])

\* name[0]
Initial(name) == NameChars(name)[1]

Func(name, params) == [name |-> name, params |-> params]

\* the nargs of an argument: None, an int, '?' or '*'
NargsNone == [k |-> "none", n |-> 1]

NargsN(n) == [k |-> "n", n |-> n]

NargsOptional == [k |-> "?", n |-> 0]

NargsStar == [k |-> "*", n |-> 0]

\* an argument of the argument parser, as _add_argument adds it: action is
\* "store" (type= elems[1]), "tuple" or "namedtuple" (a _StoreTupleAction
\* over elems), "bool" (_BooleanOptionalAction), "store_true" or "help"; flags are
\* its option strings ("foo" is --foo, "-f" is -f), negative the
\* negative_option_strings among them
NoArgument ==
    [dest |-> "", positional |-> FALSE, nargs |-> NargsNone,
     required |-> FALSE, hasdefault |-> FALSE, action |-> "",
     elems |-> <<>>, var |-> FALSE, none_parser |-> NoParser,
     flags |-> <<>>, negative |-> {}]

\* the -h/--help action of a parser made with add_help
HelpArgument ==
    [NoArgument EXCEPT !.dest = "help", !.action = "help", !.nargs = NargsN(0),
                       !.flags = <<"-h", "help">>]

ArgOk(a) == [err |-> NoErr, arg |-> a]

ArgFail(e) == [err |-> e, arg |-> NoArgument]

\* the exception _get_parser raised
SynthErr(e) ==
    RErr(e, IF e = "ValueError" THEN "unable to parse list (try list[type])"
            ELSE "no parser found for type", "", <<>>)

_is_optional_list_like(t) == _is_union_type(t) /\ AnyListLike(t.args)

\* lines 1208-1211, is_variable_length false: a parser for every member, now
RECURSIVE MemberParsers(_, _, _, _)
MemberParsers(member_types, i, tbl, acc) ==
    IF i > Len(member_types) THEN [err |-> "", elems |-> acc]
    ELSE LET r == _get_parser(member_types[i], tbl)
         IN  IF r.err # "" THEN [err |-> r.err, elems |-> <<>>]
             ELSE MemberParsers(member_types, i + 1, tbl, Append(acc, r.p))

\* member parsers that are looked up when the action is called
MemberParsersDeferred(member_types, tbl, is_variable_length) ==
    [err |-> "",
     elems |-> [i \in 1..Len(member_types) |->
                  LET r == _get_parser(member_types[i], tbl)
                  IN  IF r.err = "" THEN r.p ELSE Partial("deferred", r.err)]]

\* lines 1204-1211: the parsers a _StoreTupleAction class closes over
_make_store_tuple_action_class(member_types, tbl, is_variable_length) ==
    IF is_variable_length
    THEN MemberParsers(<<member_types[1]>>, 1, tbl, <<>>)
    ELSE MemberParsers(member_types, 1, tbl, <<>>)

\* argparse: a positional is required unless its nargs is '?' or '*' (a
\* default is always given, line 632)
PositionalRequired(nargs) == nargs.k \notin {"?", "*"}

\* nargs that let a tuple take any number of tokens
TupleNargsAny(n) == NargsStar

\* lines 684, 694: the nargs of a tuple of n members
TupleNargs(n) == NargsN(n)

\* the argument as it is before the type is looked at, lines 613-640
BaseArgument(p, positional) ==
    [NoArgument EXCEPT
       !.dest = p.name, !.positional = positional,
       !.hasdefault = p.hasdefault, !.action = "store",
       !.nargs = IF positional /\ p.hasdefault THEN NargsOptional ELSE NargsNone,
       !.required = ~p.hasdefault]

\* parser.add_argument(..): a positional's required is argparse's
AddArgument(arg) ==
    ArgOk(IF arg.positional
          THEN [arg EXCEPT !.required = PositionalRequired(arg.nargs)]
          ELSE arg)

\* lines 700-703: type=_get_parser(type_, opts.parsers), r
StoreArgument(arg, r) ==
    IF r.err # "" THEN ArgFail(SynthErr(r.err))
    ELSE AddArgument([arg EXCEPT !.elems = <<r.p>>])

\* lines 664-698: action=_make_store_tuple_action_class(..), r
TupleArgument(arg, t, tbl, with_none, r) ==
    IF with_none /\ Len(t.args) # 1
    THEN ArgFail(RErr("ValueError",
             "Optional tuples of length > 1 and NoneType parsers cannot be used together due to ambiguity",
             "", <<>>))
    ELSE IF r.err # "" THEN ArgFail(SynthErr(r.err))
    ELSE AddArgument(
           [arg EXCEPT
              !.nargs = IF t.tag = "vartuple" THEN NargsStar
                        ELSE IF with_none THEN NargsN(1)
                        ELSE TupleNargs(Len(t.args)),
              !.action = IF t.tag = "namedtuple" THEN "namedtuple" ELSE "tuple",
              !.elems = r.elems,
              !.var = (t.tag = "vartuple"),
              !.none_parser = IF with_none
                              THEN Unwrapped("override", OverrideOf(NoneType, tbl))
                              ELSE NoParser])

\* lines 652-710: the argument for the type t that is left of the annotation
TypedArgument(arg, t, tbl, optional) ==
    IF t.tag \in {"tuple", "vartuple", "namedtuple"} /\ ~IsEnum(t)
    THEN TupleArgument(arg, t, tbl,
                       t.tag = "tuple" /\ optional /\ HasOverride(NoneType, tbl),
                       _make_store_tuple_action_class(t.args, tbl,
                                                      t.tag = "vartuple"))
    ELSE StoreArgument(arg, _get_parser(t, tbl))

\* lines 642-657: u is the annotation without its None, or the error
ContainerArgument(arg, a, tbl, u) ==
    IF u.err # NoErr THEN ArgFail(u.err)
    ELSE TypedArgument(IF _is_list_like(u.t) THEN [arg EXCEPT !.nargs = NargsStar]
                       ELSE arg,
                       IF _is_list_like(u.t) THEN u.t.args[1] ELSE u.t,
                       tbl,
                       _is_union_type(a) /\ NoneType \in Range(a.args))

\* 'store_true' for a default of False only
BoolActionFalseOnly(p, opts) ==
    IF opts.no_negated_flags /\ p.hasdefault /\ p.default = V("bool", "False")
    THEN "store_true" ELSE "bool"

\* lines 620-622: 'store_true' if opts.no_negated_flags and default in
\* [False, None] else _BooleanOptionalAction; without a default, default is
\* SUPPRESS
BoolAction(p, opts) ==
    IF opts.no_negated_flags /\ p.hasdefault
         /\ p.default \in {V("bool", "False"), NoneVal}
    THEN "store_true" ELSE "bool"

\* lines 613-627: the flag of a bool, or the argument of another type
FlagOrArgument(p, a, tbl, positional, opts) ==
    IF (a = Sc("bool") \/ TypeEq(a, UnionOf(<<Sc("bool"), NoneType>>)))
         /\ ~positional
    THEN ArgOk([BaseArgument(p, positional) EXCEPT
                  !.action = BoolAction(p, opts), !.nargs = NargsN(0)])
    ELSE ContainerArgument(BaseArgument(p, positional), a, tbl,
                           PopulateType(p.name, a))

\* in positionals by cli_options and the default alone
IsPositionalByDefault(p, a, opts) ==
    \/ opts.cli_options = "kwonly"
    \/ ~p.hasdefault /\ opts.cli_options = "has_default"

\* lines 580-590: whether the parameter is in positionals
IsPositional(p, a, opts) ==
    /\ \/ opts.cli_options = "kwonly"
       \/ ~p.hasdefault /\ opts.cli_options = "has_default"
    /\ ~(_is_list_like(a) \/ _is_optional_list_like(a))
    /\ p.kind # "kwonly"

positionals(params, anns, opts) ==
    {params[i].name : i \in {j \in 1..Len(params) :
                                IsPositional(params[j], anns[j], opts)}}

\* the same Counter over every parameter
count_initials_all(params, pos, opts, c) ==
    Cardinality({n \in {params[i].name : i \in 1..Len(params)} :
                   Initial(n) = c})
      + (IF opts.add_help /\ c = "h" THEN 1 ELSE 0)

\* lines 592-595: Counter(name[0] for name in sig.parameters if name not in
\* positionals), and one more for 'h' if parser.add_help
count_initials(params, pos, opts, c) ==
    Cardinality({n \in {params[i].name : i \in 1..Len(params)} \ pos :
                   Initial(n) = c})
      + (IF opts.add_help /\ c = "h" THEN 1 ELSE 0)

\* lines 591-598: opts.short, generated when it is None
ShortFlags(params, pos, opts) ==
    IF opts.short.given THEN opts.short.map
    ELSE {<<Dashed(n), Initial(n)>> :
            n \in {m \in {params[i].name : i \in 1..Len(params)} \ pos :
                      count_initials(params, pos, opts, Initial(m)) = 1}}

\* short[name]
ShortOf(short, name) == "-" \o (CHOOSE e \in short : e[1] = name)[2]

\* _add_argument, lines 713-733: the option strings of a flag, r the
\* argument made so far or the exception raised
_add_argument(r, short) ==
    IF r.err # NoErr \/ r.arg.positional THEN r
    ELSE LET name == Dashed(r.arg.dest)
             no_name == "no-" \o name
             args == (IF \E e \in short : e[1] = name
                      THEN <<ShortOf(short, name)>> ELSE <<>>) \o <<name>>
             negative_option_strings ==
                 IF r.arg.action # "bool" THEN <<>>
                 ELSE (IF \E e \in short : e[1] = no_name
                       THEN <<ShortOf(short, no_name)>> ELSE <<>>) \o <<no_name>>
         IN  ArgOk([r.arg EXCEPT !.flags = args \o negative_option_strings,
                                 !.negative = Range(negative_option_strings)])

\* _populate_parser, lines 601-710, for one parameter p whose merged
\* annotation is a; opts.short is the mapping made or given
PopulateParam(p, a, tbl, opts, positional) ==
    IF a = NoAnnotation
    THEN ArgFail(RErr("ValueError", "no type found for parameter", p.name, <<>>))
    ELSE _add_argument(FlagOrArgument(p, a, tbl, positional, opts),
                       opts.short.map)

\* the first exception of a sequence of results, in its order
FirstErr(rs) ==
    IF \E i \in 1..Len(rs) : rs[i].err # NoErr
    THEN rs[MinOf({i \in 1..Len(rs) : rs[i].err # NoErr})].err
    ELSE NoErr

\* signature(func): every docstring type is resolved, then every parameter's
\* two types are merged
signature(f) ==
    LET n == Len(f.params)
        hints == [i \in 1..n |->
                    IF f.params[i].hint = NoAnnotation THEN NoAnnotation
                    ELSE _get_type_from_hint(f.params[i].hint)]
        docs == [i \in 1..n |->
                    IF f.params[i].docTok = <<>> THEN RType(NoAnnotation)
                    ELSE _get_type_from_doc(f.params[i].docTok)]
        merged == [i \in 1..n |->
                    _merge_signatures(f.params[i].name, hints[i], docs[i].t, TRUE)]
    IN  [err |-> IF FirstErr(docs) # NoErr THEN FirstErr(docs)
                 ELSE FirstErr(merged),
         anns |-> [i \in 1..n |-> merged[i].t]]

\* ArgumentParser._check_conflict: an option string that another argument
\* of the parser has, the help option included
Conflicts(arg, acc, opts) ==
    \E k \in 1..Len(arg.flags) :
        \/ \E j \in 1..Len(acc) : arg.flags[k] \in Range(acc[j].flags)
        \/ opts.add_help /\ arg.flags[k] \in Range(HelpArgument.flags)

\* the loop of _populate_parser over the parameters, lines 601-710
RECURSIVE PopulateLoop(_, _, _, _, _, _, _)
PopulateLoop(params, anns, i, tbl, opts, pos, acc) ==
    IF i > Len(params) THEN [err |-> NoErr, args |-> acc]
    ELSE LET r == PopulateParam(params[i], anns[i], tbl, opts,
                                params[i].name \in pos)
         IN  IF r.err # NoErr THEN [err |-> r.err, args |-> <<>>]
             ELSE IF Conflicts(r.arg, acc, opts)
             THEN [err |-> RErr("ArgumentError", "conflicting option string",
                                params[i].name, <<>>),
                   args |-> <<>>]
             ELSE PopulateLoop(params, anns, i + 1, tbl, opts, pos,
                               Append(acc, r.arg))

\* lines 580-598: positionals, and opts._replace(short=..)
PopulateWith(params, anns, tbl, opts, pos) ==
    PopulateLoop(params, anns, 1, tbl,
                 [opts EXCEPT !.short = ShortMap(ShortFlags(params, pos, opts))],
                 pos, <<>>)

_populate_parser(f, tbl, opts) ==
    LET sig == signature(f)
    IN  IF sig.err # NoErr THEN [err |-> sig.err, args |-> <<>>]
        ELSE PopulateWith(f.params, sig.anns, tbl, opts,
                          positionals(f.params, sig.anns, opts))

(***************************************************************************)
(* The argument parser going through the tokens (ArgumentParser            *)
(* .parse_args, as defopt's arguments use it).                             *)
(***************************************************************************)
\* a token of argv: a value, or an option string ('--' + s; 'h' is -h, the
\* help option; '-c' is the short flag -c)
Val(s) == [k |-> "val", s |-> s]

Opt(s) == [k |-> "opt", s |-> s]

\* an attribute of the namespace
Entry(dest, shape, items) == [dest |-> dest, shape |-> shape, items |-> items]

Has(nsp, dest) == \E i \in 1..Len(nsp) : nsp[i].dest = dest

Get(nsp, dest) == nsp[CHOOSE i \in 1..Len(nsp) : nsp[i].dest = dest]

\* setattr(namespace, dest, value)
Put(nsp, e) ==
    IF Has(nsp, e.dest)
    THEN [i \in 1..Len(nsp) |-> IF nsp[i].dest = e.dest THEN e ELSE nsp[i]]
    ELSE Append(nsp, e)

\* the state of one parse_known_args: the next token, the positionals not
\* yet matched, the namespace, the actions seen, the tokens left over; and
\* how it failed, if it did (fail is "exit" or "crash")
PState(start, pos, nsp, seen, extras) ==
    [fail |-> "", code |-> 0, exc |-> "", start |-> start, pos |-> pos,
     ns |-> nsp, seen |-> seen, extras |-> extras]

\* parser.error(..) and the help action: sys.exit(code)
PExit(S, code, at) == [S EXCEPT !.fail = "exit", !.code = code, !.start = at]

\* an exception that the argument parser does not catch
PCrash(S, exc, at) == [S EXCEPT !.fail = "crash", !.exc = exc, !.start = at]

\* ArgumentParser._get_value: what it takes for a rejection by type=
ArgparseCaught == {"ArgumentTypeError", "TypeError", "ValueError"}

\* line 1222: what the tuple action takes for a rejection by a member parser
TupleCaught == {"ValueError", "ArgumentTypeError"}

\* [type(s) for s in strings]
RECURSIVE ConvertAll(_, _, _, _)
ConvertAll(type, strings, i, acc) ==
    IF i > Len(strings) THEN [ok |-> TRUE, exc |-> "", items |-> acc]
    ELSE LET r == Call(type, strings[i])
         IN  IF r.ok THEN ConvertAll(type, strings, i + 1, Append(acc, r.val))
             ELSE [ok |-> FALSE, exc |-> r.exc, items |-> <<>>]

\* line 1219-1221: tuple(parser(value) for parser, value in zip(parsers, values))
RECURSIVE ZipParse(_, _, _, _, _)
ZipParse(elems, var, values, i, acc) ==
    IF i > Len(values) \/ (~var /\ i > Len(elems))
    THEN [ok |-> TRUE, exc |-> "", items |-> acc]
    ELSE LET r == Call(IF var THEN elems[1] ELSE elems[i], values[i])
         IN  IF r.ok THEN ZipParse(elems, var, values, i + 1, Append(acc, r.val))
             ELSE [ok |-> FALSE, exc |-> r.exc, items |-> <<>>]

\* setattr(namespace, dest, ..) by an action that was taken
SetAttr(S, e, at) ==
    [S EXCEPT !.ns = Put(S.ns, e), !.seen = S.seen \cup {e.dest}, !.start = at]

\* a rejection is parser.error(..); another exception leaves the parser
Reject(S, exc, caught, at) ==
    IF exc \in caught THEN PExit(S, 2, at) ELSE PCrash(S, exc, at)

\* the store action, r the converted strings
StoreValues(arg, S, at, r) ==
    IF ~r.ok THEN Reject(S, r.exc, ArgparseCaught, at)
    ELSE SetAttr(S, Entry(arg.dest,
                          IF arg.nargs.k \in {"none", "?"} THEN "scalar" ELSE "list",
                          r.items), at)

\* lines 1214-1218: with_none_parser(*values)
NoneTry(arg, strings) ==
    IF arg.none_parser = NoParser THEN Raise("ValueError")
    ELSE IF Len(strings) = 1 THEN Call(arg.none_parser, strings[1])
    ELSE Raise("TypeError")

\* _StoreTupleAction.__call__, lines 1213-1232: n is what with_none_parser
\* gave, r what the member parsers gave
TupleValues(arg, S, at, n, r) ==
    IF n.ok THEN SetAttr(S, Entry(arg.dest, "scalar", <<n.val>>), at)
    ELSE IF n.exc # "ValueError" THEN PCrash(S, n.exc, at)
    ELSE IF ~r.ok THEN Reject(S, r.exc, TupleCaught, at)
    ELSE SetAttr(S, Entry(arg.dest, arg.action, r.items), at)

\* a flag that stores True whatever its option string
_BooleanOptionalActionTrue(arg, option_string) == V("bool", "True")

\* _BooleanOptionalAction.__call__, lines 103-106: option_string not in
\* self.negative_option_strings
_BooleanOptionalAction(arg, option_string) ==
    IF option_string \notin arg.negative
    THEN V("bool", "True") ELSE V("bool", "False")

\* ArgumentParser.take_action for the strings matched to an argument; at is
\* the token after them
TakeAction(arg, option_string, strings, S, at) ==
    IF arg.action = "help" THEN PExit(S, 0, S.start)
    ELSE IF arg.action = "bool"
    THEN IF option_string \in Range(arg.flags)
         THEN SetAttr(S, Entry(arg.dest, "scalar",
                               <<_BooleanOptionalAction(arg, option_string)>>),
                      at)
         ELSE [S EXCEPT !.seen = S.seen \cup {arg.dest}, !.start = at]
    ELSE IF arg.action = "store_true"
    THEN SetAttr(S, Entry(arg.dest, "scalar", <<V("bool", "True")>>), at)
    ELSE IF strings = <<>> /\ arg.positional /\ arg.nargs.k \in {"?", "*"}
    THEN \* _get_values: the default; the action is not called for SUPPRESS
         IF arg.hasdefault THEN SetAttr(S, Entry(arg.dest, "default", <<>>), at)
         ELSE [S EXCEPT !.seen = S.seen \cup {arg.dest}, !.start = at]
    ELSE IF arg.action = "store"
    THEN StoreValues(arg, S, at, ConvertAll(arg.elems[1], strings, 1, <<>>))
    ELSE TupleValues(arg, S, at, NoneTry(arg, strings),
                     ZipParse(arg.elems, arg.var, strings, 1, <<>>))

\* the tokens from start on that are values, up to the next option string
RECURSIVE RunLength(_, _)
RunLength(toks, start) ==
    IF start > Len(toks) \/ toks[start].k # "val" THEN 0
    ELSE 1 + RunLength(toks, start + 1)

Strings(toks, from, count) == [i \in 1..count |-> toks[from + i - 1].s]

\* the fewest tokens the nargs pattern matches
MinCount(nargs) ==
    CASE nargs.k = "none" -> 1
      [] nargs.k = "n" -> nargs.n
      [] OTHER -> 0

RECURSIVE MinSum(_, _, _)
MinSum(pos, from, to) ==
    IF from > to THEN 0
    ELSE MinCount(pos[from].nargs) + MinSum(pos, from + 1, to)

\* _match_arguments_partial: the most positionals whose patterns match a
\* prefix of the run of L values
MatchedCount(pos, L) ==
    LET ks == {k \in 0..Len(pos) : MinSum(pos, 1, k) <= L}
    IN  CHOOSE k \in ks : \A j \in ks : j <= k

\* the tokens a pattern takes of the avail it may take
PatternCount(nargs, avail) ==
    CASE nargs.k = "none" -> 1
      [] nargs.k = "n" -> nargs.n
      [] nargs.k = "?" -> IF avail >= 1 THEN 1 ELSE 0
      [] OTHER -> avail

\* the tokens the i-th of k matched positionals takes when `used` are taken
\* before it: as many as its pattern allows and the later patterns leave
GreedyCount(pos, i, k, L, used) ==
    PatternCount(pos[i].nargs, L - used - MinSum(pos, i + 1, k))

\* a positional whose action was taken is matched
Matched(S) == IF S.fail # "" THEN S ELSE [S EXCEPT !.pos = Tail(S.pos)]

\* consume_positionals: take the action of each matched positional
RECURSIVE TakePositionals(_, _, _, _, _, _, _), TakePositional(_, _, _, _, _, _, _, _)
TakePositionals(pos, toks, i, k, L, used, S) ==
    IF i > k \/ S.fail # "" THEN S
    ELSE TakePositional(pos, toks, i, k, L, used, S, GreedyCount(pos, i, k, L, used))

TakePositional(pos, toks, i, k, L, used, S, c) ==
    TakePositionals(pos, toks, i + 1, k, L, used + c,
                    Matched(TakeAction(pos[i], "", Strings(toks, S.start, c), S,
                                       S.start + c)))

consume_positionals(toks, S) ==
    TakePositionals(S.pos, toks, 1,
                    MatchedCount(S.pos, RunLength(toks, S.start)),
                    RunLength(toks, S.start), 0, S)

\* the option string's argument, and the strings it takes of the L values
\* after it
OptionalArgument(arg, toks, S, L, c) ==
    IF c > L THEN PExit(S, 2, S.start)
    ELSE TakeAction(arg, toks[S.start].s, Strings(toks, S.start + 1, c), S,
                    S.start + 1 + c)

\* consume_optional, for the option string at S.start
consume_optional(arguments, toks, S) ==
    LET tok == toks[S.start]
        known == {i \in 1..Len(arguments) :
                    /\ ~arguments[i].positional
                    /\ tok.s \in Range(arguments[i].flags)}
    IN  IF known = {}
        THEN [S EXCEPT !.extras = Append(S.extras, tok), !.start = S.start + 1]
        ELSE OptionalArgument(arguments[CHOOSE i \in known : TRUE], toks, S,
                              RunLength(toks, S.start + 1),
                              PatternCount(arguments[CHOOSE i \in known : TRUE].nargs,
                                           RunLength(toks, S.start + 1)))

\* the next option string from start on; past the end if there is none
NextOption(toks, start) ==
    MinOf({j \in start..Len(toks) : toks[j].k = "opt"} \cup {Len(toks) + 1})

\* the values before the next option string that no positional took
SkipTo(S, toks, nxt) ==
    [S EXCEPT !.extras = S.extras \o SubSeq(toks, S.start, nxt - 1), !.start = nxt]

\* the loop of parse_known_args over the option strings, and the
\* positionals after the last one
RECURSIVE ParseLoop(_, _, _), ParseAt(_, _, _, _), AfterPositionals(_, _, _, _, _)
ParseLoop(arguments, toks, S) ==
    IF S.fail # "" THEN S
    ELSE ParseAt(arguments, toks, S, NextOption(toks, S.start))

ParseAt(arguments, toks, S, nxt) ==
    AfterPositionals(arguments, toks, S, nxt,
                     IF S.start # nxt \/ nxt > Len(toks)
                     THEN consume_positionals(toks, S) ELSE S)

AfterPositionals(arguments, toks, S, nxt, P) ==
    IF P.fail # "" THEN P
    ELSE IF nxt > Len(toks) THEN SkipTo(P, toks, nxt)
    ELSE IF P.start > S.start THEN ParseLoop(arguments, toks, P)
    ELSE ParseLoop(arguments, toks,
                   consume_optional(arguments, toks, SkipTo(P, toks, nxt)))

\* the namespace before any token: the defaults that are not SUPPRESS
RECURSIVE Defaults(_, _)
Defaults(arguments, i) ==
    IF i > Len(arguments) THEN <<>>
    ELSE IF arguments[i].hasdefault
         THEN <<Entry(arguments[i].dest, "default", <<>>)>>
                  \o Defaults(arguments, i + 1)
         ELSE Defaults(arguments, i + 1)

\* the end of parse_known_args: the required arguments were seen
RequiredSeen(arguments, toks, S) ==
    IF S.fail # "" THEN S
    ELSE IF \E i \in 1..Len(arguments) :
               arguments[i].required /\ arguments[i].dest \notin S.seen
         THEN PExit(S, 2, Len(toks) + 1)
    ELSE S

\* ArgumentParser.parse_known_args for the arguments of one function
parse_known_args(arguments, toks) ==
    RequiredSeen(arguments, toks,
                 ParseLoop(arguments, toks,
                           PState(1, SelectSeq(arguments, LAMBDA a : a.positional),
                                  Defaults(arguments, 1), {}, <<>>)))

\* how going through argv ended: sys.exit(code), an exception, or the
\* function selected and its parsed arguments
Parsed(fail, code, exc, n, f, nsp) ==
    [fail |-> fail, code |-> code, exc |-> exc, consumed |-> n,
     selected |-> f, ns |-> nsp]

\* what the top-level parser does with the tokens up to the sub-command's
\* name: f is the function named and from the first token after the name
Selected(code, f, from, extras) ==
    [code |-> code, f |-> f, from |-> from, extras |-> extras]

\* the top-level parser of a list of functions: -h, and the sub-command
RECURSIVE TopParse(_, _, _, _)
TopParse(fs, toks, i, extras) ==
    IF i > Len(toks) THEN Selected(2, 0, i, extras)
    ELSE IF toks[i].k = "opt"
    THEN IF toks[i].s \in Range(HelpArgument.flags)
         THEN Selected(0, 0, i + 1, extras)
         ELSE TopParse(fs, toks, i + 1, Append(extras, toks[i]))
    ELSE IF \E f \in 1..Len(fs) : fs[f].name = toks[i].s
         THEN Selected(-1, CHOOSE f \in 1..Len(fs) : fs[f].name = toks[i].s,
                       i + 1, extras)
         ELSE Selected(2, 0, i + 1, extras)

\* parse_args: the tokens left over are an error
Unrecognized(toks, sel, S) ==
    IF S.fail # ""
    THEN Parsed(S.fail, S.code, S.exc,
                IF sel.from + S.start - 1 > Len(toks) THEN Len(toks)
                ELSE sel.from + S.start - 1,
                sel.f, <<>>)
    ELSE IF sel.extras \o S.extras # <<>>
         THEN Parsed("exit", 2, "", Len(toks), sel.f, <<>>)
    ELSE Parsed("", 0, "", Len(toks), sel.f, S.ns)

\* the actions of a parser: those of the parameters and, with add_help, the
\* help option that ArgumentParser.__init__ adds
WithHelp(arguments, add_help) ==
    IF add_help THEN Append(arguments, HelpArgument) ELSE arguments

ParseSelected(args, toks, sel, add_help) ==
    IF sel.code >= 0 THEN Parsed("exit", sel.code, "", sel.from - 1, 0, <<>>)
    ELSE Unrecognized(toks, sel,
                      parse_known_args(WithHelp(args[sel.f], add_help),
                                       SubSeq(toks, sel.from, Len(toks))))

\* parser.parse_args(opts.argv), lines 153-165
parse_args(fs, args, toks, add_help) ==
    ParseSelected(args, toks,
                  IF Len(fs) = 1 THEN Selected(-1, 1, 1, <<>>)
                  ELSE TopParse(fs, toks, 1, <<>>),
                  add_help)

\* how run(..) ended: kind is "returned" (the function ran and returned),
\* "raised" (an exception left run) or "exit" (SystemExit from the parser)
Result(kind, code, exc) == [kind |-> kind, code |-> code, exc |-> exc]

NoResult == Result("", 0, "")

\* call(): the function is called with the parsed arguments; a parameter
\* with neither a parsed value nor a default is a TypeError of the call
call(f, nsp) ==
    IF \E i \in 1..Len(f.params) :
          ~Has(nsp, f.params[i].name) /\ ~f.params[i].hasdefault
    THEN Result("raised", 0, "TypeError")
    ELSE Result("returned", 0, "")

(***************************************************************************)
(* run(funcs, argv=argv) as a state machine.                               *)
(***************************************************************************)
\* the longest command line
MaxArgv == 3

CliIdle ==
    /\ funcs = <<>>
    /\ argv = <<>>
    /\ cparsers = {}
    /\ copts = DefaultOptions
    /\ cpc = "idle"
    /\ fi = 1
    /\ cargs = <<>>
    /\ consumed = 0
    /\ selected = 0
    /\ ns = <<>>
    /\ cresult = NoResult
    /\ cerr = NoErr

\* the state before _create_parser, for the given functions, command lines,
\* parser tables and options
CliStartWith(Fs, Argvs, Tables, Opts) ==
    /\ funcs \in Fs
    /\ argv \in Argvs
    /\ cparsers \in Tables
    /\ copts \in Opts
    /\ cpc = "new"
    /\ fi = 1
    /\ cargs = <<>>
    /\ consumed = 0
    /\ selected = 0
    /\ ns = <<>>
    /\ cresult = NoResult
    /\ cerr = NoErr

\* the same, the options left at their defaults
CliStart(Fs, Argvs, Tables) == CliStartWith(Fs, Argvs, Tables, {DefaultOptions})

\* parser.add_help of the parser of a function: the parser of
\* _create_parser, made with opts.argparse_kwargs (lines 360-361), or a
\* subparser, made without them (lines 348-349)
parser_add_help(fs, opts) == Len(fs) > 1 \/ opts.add_help

\* _create_parser, lines 363-368: _populate_parser for the next function
PopulateParser ==
    /\ cpc = "new"
    /\ LET r == _populate_parser(funcs[fi], cparsers,
                                  [copts EXCEPT !.add_help = parser_add_help(funcs, copts)])
       IN  IF r.err # NoErr
           THEN /\ cerr' = r.err
                /\ cpc' = "error"
                /\ cresult' = Result("raised", 0, r.err.exc)
                /\ UNCHANGED <<fi, cargs>>
           ELSE /\ cargs' = Append(cargs, r.args)
                /\ fi' = fi + 1
                /\ cpc' = IF fi = Len(funcs) THEN "built" ELSE "new"
                /\ UNCHANGED <<cerr, cresult>>
    /\ UNCHANGED <<funcs, argv, cparsers, copts, consumed, selected, ns>>
    /\ UNCHANGED cliOthers

\* _bind_or_bind_known, lines 153-165: the argument parser goes through argv
ParseArgs ==
    /\ cpc = "built"
    /\ LET r == parse_args(funcs, cargs, argv, parser_add_help(funcs, copts))
       IN  /\ consumed' = r.consumed
           /\ selected' = r.selected
           /\ ns' = r.ns
           /\ cpc' = IF r.fail = "" THEN "parsed" ELSE "done"
           /\ cresult' = CASE r.fail = "exit" -> Result("exit", r.code, "SystemExit")
                           [] r.fail = "crash" -> Result("raised", 0, r.exc)
                           [] OTHER -> cresult
    /\ UNCHANGED <<funcs, argv, cparsers, copts, fi, cargs, cerr>>
    /\ UNCHANGED cliOthers

\* run, lines 308-312: bind(..)()
CallFunc ==
    /\ cpc = "parsed"
    /\ cresult' = call(funcs[selected], ns)
    /\ cpc' = "done"
    /\ UNCHANGED <<funcs, argv, cparsers, copts, fi, cargs, consumed, selected,
                   ns, cerr>>
    /\ UNCHANGED cliOthers

CliNext ==
    \/ PopulateParser
    \/ ParseArgs
    \/ CallFunc

\* ---- one function main(foo) whose parameter is a tuple or a list
TokenTypes ==
    {TupleOf(<<Sc("int"), Sc("str")>>), TupleOf(<<Sc("int")>>),
     NamedTupleOf(<<Sc("int"), Sc("str")>>), VarTupleOf(Sc("int")),
     ListOf(Sc("int")), UnionOf(<<TupleOf(<<Sc("int")>>), NoneType>>)}

TokenFuncs ==
    {<<Func("main", <<Param("foo", kind, hasdefault, t, <<>>)>>)>> :
        kind \in {"pos", "kwonly"}, hasdefault \in BOOLEAN, t \in TokenTypes}

TokenArgvs ==
    SeqsUpTo({Val("1"), Val("a"), Val("nil"), Opt("foo")}, 0, MaxArgv)

TokenTables == {{}, {<<NoneType, "nil">>}}

InitTokens == CliStart(TokenFuncs, TokenArgvs, TokenTables)

\* ---- functions f and g, some of whose parameters have a type that
\* ---- cannot be made an argument
GoodParams(name) ==
    {Param(name, "pos", FALSE, Sc("int"), <<>>),
     Param(name, "pos", FALSE, NoAnnotation, <<Sc("int")>>),
     Param(name, "kwonly", TRUE, Sc("str"), <<>>),
     Param(name, "pos", FALSE, TupleOf(<<Sc("int"), Sc("str")>>), <<>>)}

BadParams(name) ==
    {Param(name, "pos", FALSE, NoAnnotation, <<>>),
     Param(name, "pos", FALSE, Sc("int"), <<Sc("float")>>),
     Param(name, "pos", FALSE, UnionOf(<<Sc("int"), ListOf(Sc("str"))>>), <<>>),
     Param(name, "pos", FALSE, NoAnnotation, <<Sc("int"), ListOf(Sc("str"))>>),
     Param(name, "pos", FALSE, Sc("Empty"), <<>>),
     Param(name, "pos", FALSE, TupleOf(<<Sc("int"), Sc("Empty")>>), <<>>),
     Param(name, "kwonly", FALSE, VarTupleOf(Sc("Empty")), <<>>),
     Param(name, "pos", FALSE, ListOf(Sc("Empty")), <<>>),
     Param(name, "pos", FALSE, NamedTupleOf(<<Sc("int"), Sc("Empty")>>), <<>>)}

CliFuncsNamed(name) ==
    {Func(name, <<p>>) : p \in GoodParams("foo") \cup BadParams("foo")}
    \cup {Func(name, <<p, q>>) :
            p \in {Param("foo", "pos", FALSE, Sc("int"), <<>>)},
            q \in GoodParams("bar") \cup BadParams("bar")}

CliFuncs ==
    {<<f>> : f \in CliFuncsNamed("f")}
    \cup {<<f, g>> : f \in CliFuncsNamed("f"),
                     g \in {Func("g", <<p>>) :
                              p \in GoodParams("foo") \cup BadParams("foo")}}

CliArgvs == SeqsUpTo({Val("1"), Val("f"), Val("g"), Opt("-h")}, 0, MaxArgv)

InitCli == CliStart(CliFuncs, CliArgvs, {{}})

\* ---- one function main(foo) whose parameter's type nests a container
\* ---- or a tuple in another, or is one level deep
NestedTypes ==
    {ListOf(ListOf(Sc("int"))), ListOf(TupleOf(<<Sc("int"), Sc("str")>>)),
     ListOf(VarTupleOf(Sc("int"))),
     ListOf(NamedTupleOf(<<Sc("int"), Sc("str")>>)),
     TupleOf(<<ListOf(Sc("int")), Sc("str")>>),
     TupleOf(<<TupleOf(<<Sc("int"), Sc("str")>>), Sc("int")>>),
     VarTupleOf(ListOf(Sc("int"))),
     NamedTupleOf(<<ListOf(Sc("int")), Sc("int")>>),
     UnionOf(<<ListOf(TupleOf(<<Sc("int"), Sc("str")>>)), NoneType>>),
     UnionOf(<<ListOf(ListOf(Sc("int"))), NoneType>>)}

FlatTypes == {ListOf(Sc("int")), TupleOf(<<Sc("int"), Sc("str")>>)}

NestedFuncs ==
    {<<Func("main", <<Param("foo", kind, FALSE, t, <<>>)>>)>> :
        kind \in {"pos", "kwonly"}, t \in NestedTypes \cup FlatTypes}

NestedArgvs == SeqsUpTo({Val("1"), Val("a"), Opt("foo"), Opt("-h")}, 0, MaxArgv)

InitNested == CliStart(NestedFuncs, NestedArgvs, {{}})

\* ---- one function main(foo), and a parser table with an entry for the
\* ---- parameter's type or for a type inside it
OverrideTypes ==
    {Sc("int"), Sc("bool"), Sc("Choice"), Sc("CStr"),
     UnionOf(<<Sc("int"), Sc("str")>>),
     LiteralOf(<<V("int", "1"), V("str", "a")>>),
     ListOf(Sc("int")), TupleOf(<<Sc("int"), Sc("str")>>),
     VarTupleOf(Sc("int")), NamedTupleOf(<<Sc("int"), Sc("str")>>)}

OverrideFuncs ==
    {<<Func("main", <<Param("foo", kind, FALSE, t, <<>>)>>)>> :
        kind \in {"pos", "kwonly"}, t \in OverrideTypes}

OverrideArgvs == SeqsUpTo({Val("1"), Val("a"), Opt("foo")}, 0, MaxArgv)

OverrideTables ==
    {{}} \cup {{<<t, "mark">>} : t \in OverrideTypes}
         \cup {{<<UnionOf(<<Sc("str"), Sc("int")>>), "mark">>}}

InitOverride == CliStart(OverrideFuncs, OverrideArgvs, OverrideTables)

\* ---- one function main(foo) whose parameter is of any supported type,
\* ---- positional-or-keyword or keyword-only, with or without a default,
\* ---- under each cli_options
KindTypes ==
    {Sc("int"), Sc("str"), Sc("bool"), Sc("Choice"),
     UnionOf(<<Sc("int"), NoneType>>), LiteralOf(<<V("str", "a")>>),
     TupleOf(<<Sc("int"), Sc("str")>>), VarTupleOf(Sc("int")),
     NamedTupleOf(<<Sc("int"), Sc("str")>>), ListOf(Sc("int")),
     UnionOf(<<ListOf(Sc("int")), NoneType>>),
     UnionOf(<<TupleOf(<<Sc("int"), Sc("str")>>), NoneType>>)}

KindFuncs ==
    {<<Func("main", <<Param("foo", kind, hasdefault, t, <<>>)>>)>> :
        kind \in {"pos", "kwonly"}, hasdefault \in BOOLEAN, t \in KindTypes}

KindArgvs == SeqsUpTo({Val("1"), Val("a"), Opt("foo")}, 0, MaxArgv)

KindOptions ==
    {Options(c, ShortNone, FALSE, TRUE) : c \in {"kwonly", "all", "has_default"}}

InitKinds == CliStartWith(KindFuncs, KindArgvs, {{}}, KindOptions)

\* ---- one function main(foo) whose parameter is a bool or an
\* ---- Optional[bool], under each no_negated_flags, with generated short
\* ---- flags or with short={'foo': 'f', 'no-foo': 'F'}
BoolParams ==
    {Param("foo", kind, FALSE, t, <<>>) :
        kind \in {"pos", "kwonly"},
        t \in {Sc("bool"), UnionOf(<<Sc("bool"), NoneType>>)}}
    \cup {ParamDefault("foo", kind, V("bool", b), t, <<>>) :
            kind \in {"pos", "kwonly"}, b \in {"True", "False"},
            t \in {Sc("bool"), UnionOf(<<Sc("bool"), NoneType>>)}}
    \cup {ParamDefault("foo", kind, NoneVal, UnionOf(<<Sc("bool"), NoneType>>), <<>>) :
            kind \in {"pos", "kwonly"}}

FlagFuncs == {<<Func("main", <<p>>)>> : p \in BoolParams}

FlagArgvs ==
    SeqsUpTo({Opt("foo"), Opt("no-foo"), Opt("-f"), Opt("-F"), Val("1")},
             0, MaxArgv)

FlagOptions ==
    {Options(c, s, n, TRUE) :
        c \in {"kwonly", "all"},
        s \in {ShortNone, ShortMap({<<"foo", "f">>, <<"no-foo", "F">>})},
        n \in BOOLEAN}

InitFlags == CliStartWith(FlagFuncs, FlagArgvs, {{}}, FlagOptions)

\* ---- one function main of up to MaxParams int parameters with a default,
\* ---- named among foo, fee, bar, hat and a_b, with short=None or short={},
\* ---- with and without the help option
MaxParams == 3

MaxShortArgv == 2

ShortNames == <<"foo", "fee", "bar", "hat", "a_b">>

\* the parameters named by the increasing positions ps of ShortNames, kinds
\* giving the kind of each
ShortParams(ps, kinds) ==
    [i \in 1..Len(ps) |->
        Param(ShortNames[ps[i]], kinds[i], TRUE, Sc("int"), <<>>)]

Increasing(ps) == \A i \in 1..(Len(ps) - 1) : ps[i] < ps[i + 1]

ShortFuncs ==
    {<<Func("main", ShortParams(ps, kinds))>> :
        <<ps, kinds>> \in
            {x \in SeqsUpTo(1..Len(ShortNames), 1, MaxParams)
                    \X SeqsUpTo({"pos", "kwonly"}, 1, MaxParams) :
               Len(x[1]) = Len(x[2]) /\ Increasing(x[1])}}

ShortArgvs ==
    SeqsUpTo({Opt("-f"), Opt("-b"), Opt("-h"), Val("1")}, 0, MaxShortArgv)

ShortOptions ==
    {Options(c, s, FALSE, h) :
        c \in {"kwonly", "all"}, s \in {ShortNone, ShortMap({})},
        h \in BOOLEAN}

InitShort == CliStartWith(ShortFuncs, ShortArgvs, {{}}, ShortOptions)

\* ---- one function main(foo), with a parser table that is empty (the
\* ---- default of run) or has an entry used for the parameter, and with
\* ---- short given, empty or None
FrameTypes ==
    {Sc("int"), Sc("bool"), UnionOf(<<Sc("int"), NoneType>>),
     UnionOf(<<Sc("int"), Sc("str")>>),
     LiteralOf(<<V("int", "1"), V("str", "a")>>),
     ListOf(Sc("int")), TupleOf(<<Sc("int"), Sc("str")>>),
     UnionOf(<<TupleOf(<<Sc("int")>>), NoneType>>)}

FrameFuncs ==
    {<<Func("main", <<Param("foo", kind, d, t, <<>>)>>)>> :
        kind \in {"pos", "kwonly"}, d \in BOOLEAN, t \in FrameTypes}

FrameArgvs == SeqsUpTo({Val("1"), Val("a"), Opt("foo"), Opt("-f")}, 0, MaxShortArgv)

FrameTables ==
    {{}, {<<Sc("int"), "double">>}, {<<NoneType, "nil">>},
     {<<NoneType, "nil">>, <<Sc("int"), "strict">>}}

FrameOptions ==
    {Options(c, s, FALSE, h) :
        c \in {"kwonly", "all"},
        s \in {ShortNone, ShortMap({}), ShortMap({<<"foo", "f">>})},
        h \in BOOLEAN}

InitFrame == CliStartWith(FrameFuncs, FrameArgvs, FrameTables, FrameOptions)

(***************************************************************************)
(* Properties of the command line.                                         *)
(***************************************************************************)
\* the one parameter of the one function of SpecTokens, and its type
TheParam == funcs[1].params[1]

FixedArity == TheParam.hint.tag \in {"tuple", "namedtuple"}

AnyArity == TheParam.hint.tag \in {"vartuple", "list"}

\* the parameter is given as --foo: it is keyword-only, or a list
Flagged == TheParam.kind = "kwonly" \/ TheParam.hint.tag = "list"

\* the command line supplies tokens for the parameter and nothing else:
\* values only for a positional, --foo and values only for a flag
Supplies ==
    /\ Len(funcs) = 1
    /\ IF Flagged
       THEN /\ argv # <<>>
            /\ argv[1] = Opt("foo")
            /\ \A i \in 2..Len(argv) : argv[i].k = "val"
       ELSE \A i \in 1..Len(argv) : argv[i].k = "val"

\* the tokens supplied for the parameter
Supplied ==
    IF Flagged THEN [i \in 1..(Len(argv) - 1) |-> argv[i + 1].s]
    ELSE [i \in 1..Len(argv) |-> argv[i].s]

\* what the parser of the i-th element type makes of the i-th token
ElementResult(i) ==
    Call(_get_parser(IF FixedArity THEN TheParam.hint.args[i]
                     ELSE TheParam.hint.args[1], cparsers).p,
         Supplied[i])

AllElementsParse == \A i \in 1..Len(Supplied) : ElementResult(i).ok

\* the function ran with the parameter bound to the parsed tokens, in their
\* order (or, no token supplied, to its default)
AcceptedElementwise ==
    /\ cresult.kind = "returned"
    /\ Has(ns, "foo")
    /\ \/ Get(ns, "foo").items = [i \in 1..Len(Supplied) |-> ElementResult(i).val]
          /\ Get(ns, "foo").shape = TheParam.hint.tag
       \/ Get(ns, "foo").shape \in {"vartuple", "tuple"}
          /\ TheParam.hint.tag = "vartuple"
          /\ Get(ns, "foo").items = [i \in 1..Len(Supplied) |-> ElementResult(i).val]
       \/ Supplied = <<>> /\ TheParam.hasdefault /\ Get(ns, "foo").shape = "default"

\* the invocation ended with the argument parser's usage error
RejectedByParser == cresult = Result("exit", 2, "SystemExit")

\* C3 (as stated): a fixed-arity tuple (plain or namedtuple) of n element types
\* accepts exactly n tokens, the i-th parsed by the i-th element parser, and
\* rejects an invocation that supplies fewer or more; a variadic tuple and a
\* list accept any number of tokens >= 0, each parsed by the element parser.
C3_TokenCounts ==
    (cpc = "done" /\ Supplies) =>
      /\ FixedArity =>
           IF Len(Supplied) = Len(TheParam.hint.args) /\ AllElementsParse
           THEN AcceptedElementwise ELSE RejectedByParser
      /\ AnyArity =>
           IF AllElementsParse THEN AcceptedElementwise ELSE RejectedByParser

\* a required positional variadic tuple that is supplied no token
EmptyRequiredVariadic ==
    /\ TheParam.hint.tag = "vartuple"
    /\ ~Flagged
    /\ ~TheParam.hasdefault
    /\ Supplied = <<>>

\* the part of C3 that holds: every case but the variadic positional tuple
\* without a default that is supplied no token
C3_TokenCountsButEmptyVariadic ==
    (cpc = "done" /\ Supplies /\ ~EmptyRequiredVariadic) =>
      /\ FixedArity =>
           IF Len(Supplied) = Len(TheParam.hint.args) /\ AllElementsParse
           THEN AcceptedElementwise ELSE RejectedByParser
      /\ AnyArity =>
           IF AllElementsParse THEN AcceptedElementwise ELSE RejectedByParser

\* def main(foo: Tuple[int, ...]) run with argv=[]: the argument parser took
\* the empty command line and the call of main raised TypeError
C3_EmptyVariadicRaises ==
    /\ cpc = "done"
    /\ Supplies
    /\ EmptyRequiredVariadic
    /\ cresult = Result("raised", 0, "TypeError")

\* a two-element tuple given two tokens, and one given a single token
C3_FixedAccepted ==
    /\ cpc = "done" /\ Supplies /\ FixedArity /\ ~Flagged
    /\ Len(Supplied) = 2
    /\ AcceptedElementwise

C3_FixedRejected ==
    /\ cpc = "done" /\ Supplies /\ FixedArity /\ Flagged
    /\ Len(Supplied) = 1 /\ Len(TheParam.hint.args) = 2
    /\ RejectedByParser

\* the parameter has a type that _populate_parser cannot make an argument of
HasBadParam(f) ==
    \E i \in 1..Len(f.params) : f.params[i] \in BadParams(f.params[i].name)

SomeBadParam == \E i \in 1..Len(funcs) : HasBadParam(funcs[i])

\* C9: a type-related construction error (no parser for a scalar or for a
\* tuple element, no type, conflicting types, unsupported container) of any
\* parameter of any function is raised while the argument parser is built:
\* no token of the command line has been gone through, no function is
\* selected or has run, whatever argv is ('-h', another sub-command).
C9_TypeErrorsBeforeTokens ==
    SomeBadParam =>
      /\ cpc \in {"new", "error"}
      /\ consumed = 0
      /\ selected = 0
      /\ cpc = "error" => cerr # NoErr /\ cresult = Result("raised", 0, cerr.exc)
      /\ cpc = "new" => cresult = NoResult /\ fi <= Len(funcs)

\* run([f, g], argv=['f', '1']) with g's parameter untyped: raised although
\* the command line selects f
C9_Witness ==
    /\ cpc = "error"
    /\ Len(funcs) = 2
    /\ ~HasBadParam(funcs[1])
    /\ HasBadParam(funcs[2])
    /\ argv = <<Val("f"), Val("1")>>

\* test_tuple_fails_early: Tuple[int, Empty] with argv=['-h']
C9_WitnessHelp ==
    /\ cpc = "error"
    /\ Len(funcs) = 1
    /\ funcs[1].params[1].hint = TupleOf(<<Sc("int"), Sc("Empty")>>)
    /\ argv = <<Opt("-h")>>
    /\ cerr = SynthErr("Exception")

\* a container (a list-like) or a tuple, under an Optional or not
Container(t) == t.tag \in {"list", "tuple", "vartuple", "namedtuple"}

WithoutNone(t) ==
    IF t.tag = "union" /\ Len(SelectSeq(t.args, LAMBDA a : a # NoneType)) = 1
    THEN SelectSeq(t.args, LAMBDA a : a # NoneType)[1]
    ELSE t

\* a container or tuple with a container or tuple in it
NestsContainer(t) ==
    /\ Container(WithoutNone(t))
    /\ \E i \in 1..Len(WithoutNone(t).args) :
          Container(WithoutNone(WithoutNone(t).args[i]))

\* C11: a type that nests a container or tuple inside another (container of
\* container, container of tuple, tuple with a container element) is
\* rejected with an error while the parser is constructed: no argument is
\* ever made for it and the command line is never gone through.
C11_NestedRejected ==
    (Len(funcs) = 1 /\ NestsContainer(funcs[1].params[1].hint)) =>
      /\ cpc \in {"new", "error"}
      /\ cargs = <<>>
      /\ cpc = "error" => cerr # NoErr

\* the nested types that are rejected: all but a list-like of tuples
C11_NestedButListOfTupleRejected ==
    (/\ Len(funcs) = 1
     /\ NestsContainer(funcs[1].params[1].hint)
     /\ ~(/\ WithoutNone(funcs[1].params[1].hint).tag = "list"
          /\ WithoutNone(funcs[1].params[1].hint).args[1].tag
               \in {"tuple", "vartuple", "namedtuple"})) =>
      /\ cpc \in {"new", "error"}
      /\ cargs = <<>>
      /\ cpc = "error" => cerr = SynthErr("Exception")

\* def main(foo: List[Tuple[int, str]]) run with --foo 1 a: main is called
\* with the tuple (1, 'a')
C11_ListOfTupleAccepted ==
    /\ cpc = "done"
    /\ funcs[1].params[1].hint = ListOf(TupleOf(<<Sc("int"), Sc("str")>>))
    /\ argv = <<Opt("foo"), Val("1"), Val("a")>>
    /\ cresult = Result("returned", 0, "")
    /\ Get(ns, "foo") = Entry("foo", "tuple", <<V("int", "1"), V("str", "a")>>)

\* the argument that _populate_parser made for the parameter
TheArgument == cargs[1][1]

Populated == Len(funcs) = 1 /\ cpc \in {"built", "parsed", "done"}

\* partial(parsers[t]) under t's name: the caller's function for the type t
CallersParser(t) ==
    [Partial("override", OverrideOf(t, cparsers)) EXCEPT !.name = TypeName(t)]

\* the types inside the parameter's type whose parser the argument needs: the
\* element of a list or variadic tuple, the members of a tuple or Union, the
\* value types of a Literal
InnerTypes(t) ==
    CASE t.tag = "literal" -> {Sc(t.args[i].t) : i \in 1..Len(t.args)}
      [] t.tag = "scalar" -> {}
      [] OTHER -> Range(t.args)

\* every parser the argument holds, the member parsers of a union or literal
\* parser included
HeldParsers(arg) ==
    Range(arg.elems) \cup UNION {Range(arg.elems[i].elems) : i \in 1..Len(arg.elems)}

\* C15 (as stated): for every type with an entry in the caller's parser
\* table the synthesized parser is the caller's function, for the parameter's
\* type itself and for a type that is a container element, tuple element,
\* union member or literal value type of it.
C15_OverrideIsTheParser ==
    (Len(funcs) = 1 /\ cpc # "new") =>
      /\ HasOverride(TheParam.hint, cparsers) =>
            /\ Populated
            /\ TheArgument.action = "store"
            /\ TheArgument.elems = <<CallersParser(TheParam.hint)>>
      /\ \A t \in InnerTypes(TheParam.hint) :
            (HasOverride(t, cparsers) /\ ~HasOverride(TheParam.hint, cparsers)) =>
                /\ Populated
                /\ CallersParser(t) \in HeldParsers(TheArgument)

\* the parameter's type goes to _get_parser: it is no flag, list or tuple
Synthesized ==
    /\ TheParam.hint.tag \in {"scalar", "union", "literal"}
    /\ ~(TheParam.hint = Sc("bool") /\ TheParam.kind = "kwonly")

\* C15, for the types that _populate_parser hands to _get_parser: the
\* parameter's own type unless it is a keyword bool, a list or a tuple, and
\* the types inside the parameter's type.
C15_OverrideWhereSynthesized ==
    (Len(funcs) = 1 /\ cpc # "new") =>
      /\ (HasOverride(TheParam.hint, cparsers) /\ Synthesized) =>
            /\ Populated
            /\ TheArgument.action = "store"
            /\ TheArgument.elems = <<CallersParser(TheParam.hint)>>
      /\ (HasOverride(TheParam.hint, cparsers) /\ ~Synthesized) =>
            /\ Populated
            /\ CallersParser(TheParam.hint) \notin HeldParsers(TheArgument)
      /\ \A t \in InnerTypes(TheParam.hint) :
            (HasOverride(t, cparsers) /\ ~HasOverride(TheParam.hint, cparsers)) =>
                /\ Populated
                /\ CallersParser(t) \in HeldParsers(TheArgument)

\* main(foo: int) with parsers={int: mark}: 'a' is parsed by the caller's
\* function
C15_OverrideUsed ==
    /\ cpc = "done"
    /\ TheParam.hint = Sc("int")
    /\ cparsers = {<<Sc("int"), "mark">>}
    /\ argv = <<Val("a")>>
    /\ cresult.kind = "returned"
    /\ Get(ns, "foo") = Entry("foo", "scalar", <<V("marked", "a")>>)

\* main(foo: Pair) with parsers={Pair: mark}: the two tokens are parsed by the
\* parsers of Pair's fields, and one token is a usage error
C15_NamedTupleOverrideIgnored ==
    /\ cpc = "done"
    /\ TheParam.hint = NamedTupleOf(<<Sc("int"), Sc("str")>>)
    /\ TheParam.kind = "pos"
    /\ cparsers = {<<NamedTupleOf(<<Sc("int"), Sc("str")>>), "mark">>}
    /\ argv = <<Val("1"), Val("a")>>
    /\ cresult.kind = "returned"
    /\ Get(ns, "foo") = Entry("foo", "namedtuple", <<V("int", "1"), V("str", "a")>>)

\* ---- properties of cli_options
\* the parameter's argument has been added to the parser
Added == Len(funcs) = 1 /\ cpc \in {"built", "parsed", "done"}

\* the argument is a flag --foo
IsFlag(arg) == ~arg.positional /\ "foo" \in Range(arg.flags)

\* run returned what the function returned, foo being its default
ReceivedDefault ==
    /\ cresult.kind = "returned"
    /\ Has(ns, "foo")
    /\ Get(ns, "foo").shape = "default"

\* C21: under cli_options='kwonly' a keyword-only parameter is a flag, a
\* parameter that is not keyword-only and has a default is an optional
\* positional, and a parameter with a default that the command line leaves
\* out is passed its default, whatever its type
C21_DefaultedIsOptionalPositional ==
    (Added /\ copts.cli_options = "kwonly") =>
      /\ TheParam.kind = "kwonly" => IsFlag(TheArgument)
      /\ (TheParam.kind = "pos" /\ TheParam.hasdefault) =>
           TheArgument.positional /\ ~TheArgument.required
      /\ (TheParam.hasdefault /\ argv = <<>> /\ cpc = "done") => ReceivedDefault

\* main(foo: Tuple[int, str] = ..) and an empty command line: the parser
\* exits with 'the following arguments are required: foo'
C21_TupleDefaultRequired ==
    /\ cpc = "done"
    /\ copts.cli_options = "kwonly"
    /\ TheParam = Param("foo", "pos", TRUE, TupleOf(<<Sc("int"), Sc("str")>>), <<>>)
    /\ argv = <<>>
    /\ TheArgument.positional
    /\ TheArgument.required
    /\ cresult = Result("exit", 2, "SystemExit")

\* main(foo: List[int] = ..): foo is the flag --foo, not a positional
C21_ListDefaultIsFlag ==
    /\ cpc = "done"
    /\ copts.cli_options = "kwonly"
    /\ TheParam = Param("foo", "pos", TRUE, ListOf(Sc("int")), <<>>)
    /\ argv = <<>>
    /\ IsFlag(TheArgument)
    /\ ReceivedDefault

\* main(foo: int = ..) and an empty command line: foo is its default
C21_ScalarDefaultOmitted ==
    /\ cpc = "done"
    /\ copts.cli_options = "kwonly"
    /\ TheParam = Param("foo", "pos", TRUE, Sc("int"), <<>>)
    /\ argv = <<>>
    /\ TheArgument.positional
    /\ ReceivedDefault

\* the parameter's type is list-like, or an Optional of a list-like
ListTyped ==
    \/ TheParam.hint.tag = "list"
    \/ /\ TheParam.hint.tag = "union"
       /\ \E i \in 1..Len(TheParam.hint.args) : TheParam.hint.args[i].tag = "list"

C22_KeywordOnlyWithoutDefaultIsFlag ==
    /\ cpc = "done"
    /\ copts.cli_options = "has_default"
    /\ TheParam = Param("foo", "kwonly", FALSE, Sc("int"), <<>>)
    /\ argv = <<Opt("foo"), Val("1")>>
    /\ IsFlag(TheArgument)
    /\ cresult.kind = "returned"

\* main(foo: int) under 'all': the flag --foo, and a value alone is rejected
C22_AllIsFlag ==
    /\ cpc = "done"
    /\ copts.cli_options = "all"
    /\ TheParam = Param("foo", "pos", FALSE, Sc("int"), <<>>)
    /\ argv = <<Val("1")>>
    /\ IsFlag(TheArgument)
    /\ cresult = Result("exit", 2, "SystemExit")

\* ---- properties of the flags of a bool
\* the parameter is a bool that is not a positional of the command line
BoolFlag ==
    /\ Len(funcs) = 1
    /\ TheParam.hint \in {Sc("bool"), UnionOf(<<Sc("bool"), NoneType>>)}
    /\ TheParam.kind = "kwonly" \/ copts.cli_options = "all"

\* no_negated_flags leaves the parameter its --no-foo
KeepsNegated ==
    ~(/\ copts.no_negated_flags
      /\ TheParam.hasdefault
      /\ TheParam.default \in {V("bool", "False"), NoneVal})

\* the option strings for foo and for no-foo on the command lines of the
\* model: -f is generated or given, -F is given only
ForFoo(s) == s \in {"foo", "-f"}

ForNoFoo(s) == s = "no-foo" \/ (s = "-F" /\ copts.short.given)

\* the command line is made of option strings of the parameter only
OnlyItsFlags ==
    \A i \in 1..Len(argv) :
        argv[i].k = "opt" /\ (ForFoo(argv[i].s) \/ ForNoFoo(argv[i].s))

\* C23: --foo and --no-foo (and their short aliases) take no value; after
\* any sequence of them the function is passed True if the last one is for
\* foo and False if it is for no-foo; with none of them it is passed the
\* default, and parsing fails if there is no default
C23_LastOccurrenceWins ==
    (BoolFlag /\ KeepsNegated /\ cpc = "done") =>
      IF ~OnlyItsFlags THEN cresult = Result("exit", 2, "SystemExit")
      ELSE IF argv = <<>>
      THEN IF TheParam.hasdefault THEN ReceivedDefault
           ELSE cresult = Result("exit", 2, "SystemExit")
      ELSE /\ cresult.kind = "returned"
           /\ Get(ns, "foo") =
                Entry("foo", "scalar",
                      <<V("bool", IF ForFoo(argv[Len(argv)].s)
                                  THEN "True" ELSE "False")>>)

\* --foo --no-foo: False
C23_Witness ==
    /\ BoolFlag
    /\ cpc = "done"
    /\ argv = <<Opt("foo"), Opt("no-foo")>>
    /\ cresult.kind = "returned"
    /\ Get(ns, "foo") = Entry("foo", "scalar", <<V("bool", "False")>>)

\* --no-foo -F -f with short={'foo': 'f', 'no-foo': 'F'}: True
C23_WitnessShort ==
    /\ BoolFlag
    /\ cpc = "done"
    /\ argv = <<Opt("no-foo"), Opt("-F"), Opt("-f")>>
    /\ cresult.kind = "returned"
    /\ Get(ns, "foo") = Entry("foo", "scalar", <<V("bool", "True")>>)

\* --foo 1: the flag takes no value
C23_WitnessValue ==
    /\ BoolFlag
    /\ cpc = "done"
    /\ argv = <<Opt("foo"), Val("1")>>
    /\ cresult = Result("exit", 2, "SystemExit")

\* no flag and no default: parsing fails
C23_WitnessRequired ==
    /\ BoolFlag
    /\ cpc = "done"
    /\ argv = <<>>
    /\ ~TheParam.hasdefault
    /\ cresult = Result("exit", 2, "SystemExit")

\* C24, as stated: with no_negated_flags=True, --no-foo is left out for
\* exactly the bool flags whose default is False
C24_NegatedOmittedIffDefaultFalse ==
    (BoolFlag /\ Added /\ copts.no_negated_flags) =>
      /\ "foo" \in Range(TheArgument.flags)
      /\ "no-foo" \notin Range(TheArgument.flags) <=>
           (TheParam.hasdefault /\ TheParam.default = V("bool", "False"))

\* C24, amended: with no_negated_flags=True, --no-foo is left out for
\* exactly the bool flags whose default is False or None; a bool flag whose
\* default is True, or that has no default, has both --foo and --no-foo
C24_NegatedOmittedIffDefaultFalseOrNone ==
    (BoolFlag /\ Added /\ copts.no_negated_flags) =>
      /\ "foo" \in Range(TheArgument.flags)
      /\ "no-foo" \notin Range(TheArgument.flags) <=>
           (TheParam.hasdefault
              /\ TheParam.default \in {V("bool", "False"), NoneVal})

\* default False and no_negated_flags: --no-foo is not an option
C24_Witness ==
    /\ BoolFlag
    /\ cpc = "done"
    /\ copts.no_negated_flags
    /\ TheParam.default = V("bool", "False")
    /\ ~copts.short.given
    /\ TheArgument.flags = <<"-f", "foo">>
    /\ argv = <<Opt("no-foo")>>
    /\ cresult = Result("exit", 2, "SystemExit")

\* default True and no_negated_flags: --no-foo is kept, and gives False
C24_WitnessKept ==
    /\ BoolFlag
    /\ cpc = "done"
    /\ copts.no_negated_flags
    /\ TheParam.default = V("bool", "True")
    /\ ~copts.short.given
    /\ TheArgument.flags = <<"-f", "foo", "no-foo">>
    /\ argv = <<Opt("no-foo")>>
    /\ Get(ns, "foo") = Entry("foo", "scalar", <<V("bool", "False")>>)

\* default None and no_negated_flags: --no-foo is not an option
C24_WitnessNone ==
    /\ BoolFlag
    /\ cpc = "done"
    /\ copts.no_negated_flags
    /\ TheParam.default = NoneVal
    /\ "no-foo" \notin Range(TheArgument.flags)
    /\ argv = <<Opt("no-foo")>>
    /\ cresult = Result("exit", 2, "SystemExit")

\* ---- properties of the short flags
\* the i-th parameter of main is a flag of the command line (no parameter
\* of these functions is a list)
FlagParam(i) ==
    funcs[1].params[i].kind = "kwonly" \/ copts.cli_options = "all"

\* the one-letter flag made of the first letter of the i-th parameter
FirstLetterFlag(i) == "-" \o Initial(funcs[1].params[i].name)

\* no other flag parameter starts with the letter of the i-th one, and the
\* letter is not the h of the help option
Unambiguous(i) ==
    /\ \A j \in 1..Len(funcs[1].params) :
          (j # i /\ FlagParam(j)) =>
             Initial(funcs[1].params[j].name) # Initial(funcs[1].params[i].name)
    /\ copts.add_help => Initial(funcs[1].params[i].name) # "h"

\* the option strings that the i-th parameter is to have
ExpectedFlags(i) ==
    IF ~FlagParam(i) THEN <<>>
    ELSE (IF ~copts.short.given /\ Unambiguous(i)
          THEN <<FirstLetterFlag(i)>> ELSE <<>>)
            \o <<Dashed(funcs[1].params[i].name)>>

\* C25: with short=None a flag parameter has the short flag of its first
\* letter iff no other flag parameter starts with it and it is not the h of
\* an enabled help option; positionals neither count nor get one; no two
\* options of the parser, --help included, share an option string; with
\* short={} there is no short flag
C25_ShortFlagIffUnambiguous ==
    /\ cpc # "error"
    /\ Added =>
         /\ \A i \in 1..Len(funcs[1].params) :
               cargs[1][i].flags = ExpectedFlags(i)
         /\ \A i, j \in 1..Len(funcs[1].params) :
               i # j => Range(cargs[1][i].flags) \cap Range(cargs[1][j].flags) = {}
         /\ \A i \in 1..Len(funcs[1].params) :
               copts.add_help =>
                 Range(cargs[1][i].flags) \cap Range(HelpArgument.flags) = {}

\* main(foo=.., *, fee=.., bar=..) with -b 1: foo is a positional, so that
\* fee has -f; bar has -b
C25_Witness ==
    /\ cpc = "done"
    /\ ~copts.short.given
    /\ copts.cli_options = "kwonly"
    /\ Len(funcs[1].params) = 3
    /\ funcs[1].params[1].name = "foo" /\ funcs[1].params[1].kind = "pos"
    /\ funcs[1].params[2].name = "fee" /\ funcs[1].params[2].kind = "kwonly"
    /\ funcs[1].params[3].name = "bar" /\ funcs[1].params[3].kind = "kwonly"
    /\ cargs[1][1].flags = <<>>
    /\ cargs[1][2].flags = <<"-f", "fee">>
    /\ cargs[1][3].flags = <<"-b", "bar">>
    /\ argv = <<Opt("-b"), Val("1")>>
    /\ cresult.kind = "returned"
    /\ Get(ns, "bar") = Entry("bar", "scalar", <<V("int", "1")>>)

\* main(*, foo=.., fee=..): neither has a short flag, -f is not an option
C25_WitnessAmbiguous ==
    /\ cpc = "done"
    /\ ~copts.short.given
    /\ Len(funcs[1].params) = 2
    /\ funcs[1].params[1].name = "foo" /\ FlagParam(1)
    /\ funcs[1].params[2].name = "fee" /\ FlagParam(2)
    /\ cargs[1][1].flags = <<"foo">>
    /\ cargs[1][2].flags = <<"fee">>
    /\ argv = <<Opt("-f"), Val("1")>>
    /\ cresult = Result("exit", 2, "SystemExit")

\* main(*, hat=..) with the help option: -h is the help
C25_WitnessHelp ==
    /\ cpc = "done"
    /\ ~copts.short.given
    /\ copts.add_help
    /\ Len(funcs[1].params) = 1
    /\ funcs[1].params[1].name = "hat" /\ FlagParam(1)
    /\ cargs[1][1].flags = <<"hat">>
    /\ argv = <<Opt("-h"), Val("1")>>
    /\ cresult = Result("exit", 0, "SystemExit")

\* main(*, hat=..) without the help option: -h 1 sets hat
C25_WitnessNoHelp ==
    /\ cpc = "done"
    /\ ~copts.short.given
    /\ ~copts.add_help
    /\ Len(funcs[1].params) = 1
    /\ funcs[1].params[1].name = "hat" /\ FlagParam(1)
    /\ cargs[1][1].flags = <<"-h", "hat">>
    /\ argv = <<Opt("-h"), Val("1")>>
    /\ cresult.kind = "returned"
    /\ Get(ns, "hat") = Entry("hat", "scalar", <<V("int", "1")>>)

\* short={}: -b is not an option
C25_WitnessDisabled ==
    /\ cpc = "done"
    /\ copts.short.given
    /\ Len(funcs[1].params) = 1
    /\ funcs[1].params[1].name = "bar" /\ FlagParam(1)
    /\ cargs[1][1].flags = <<"bar">>
    /\ argv = <<Opt("-b"), Val("1")>>
    /\ cresult = Result("exit", 2, "SystemExit")

\* ---- properties of what run leaves alone
\* a parser and the parsers it closes over
RECURSIVE ParsersIn(_)
ParsersIn(p) ==
    {p} \cup UNION {ParsersIn(p.elems[i]) : i \in 1..Len(p.elems)}

\* the callables held by the arguments added so far
ArgumentParsers ==
    UNION {UNION {ParsersIn(cargs[f][i].elems[k]) :
                    k \in 1..Len(cargs[f][i].elems)}
             \cup (IF cargs[f][i].none_parser = NoParser THEN {}
                   ELSE {cargs[f][i].none_parser}) :
           <<f, i>> \in {x \in (1..Len(cargs)) \X (1..MaxArgs) :
                           x[2] <= Len(cargs[x[1]])}}

\* the objects that were given a __name__
Named == {p \in ArgumentParsers : p.name # <<>>}

\* a __name__ is only ever set on a functools.partial made for the synthesis
NamedAreWrappers == \A p \in Named : p.wrapper

\* no step changes opts.parsers, opts.short or opts.argparse_kwargs
MappingsUnchanged == cparsers' = cparsers /\ copts' = copts

\* C26: no step of run changes the parsers, short and argparse_kwargs
\* mappings it was given (the {} defaults of run included), and every object
\* that is given a display name is a wrapper made for that synthesis, never
\* the caller's parser function or a built-in type
C26_CallerObjectsUnchanged ==
    [](NamedAreWrappers) /\ [][MappingsUnchanged]_vars

\* main(foo: int) with parsers={int: double} and short={'foo': 'f'}, after
\* -f 1: the parser named int is a partial around the caller's function
C26_Witness ==
    /\ cpc = "done"
    /\ cresult.kind = "returned"
    /\ cparsers = {<<Sc("int"), "double">>}
    /\ copts.short = ShortMap({<<"foo", "f">>})
    /\ argv = <<Opt("-f"), Val("1")>>
    /\ TheArgument.elems[1].func = "override"
    /\ TheArgument.elems[1].ov = "double"
    /\ TheArgument.elems[1].wrapper
    /\ TheArgument.elems[1] \in Named

\* Optional[Tuple[int]] with parsers={NoneType: nil}: the caller's function
\* is held as it is, and is not named
C26_WitnessHeld ==
    /\ cpc = "built"
    /\ TheArgument.none_parser # NoParser
    /\ ~TheArgument.none_parser.wrapper
    /\ TheArgument.none_parser \notin Named

\* short=None with the default parsers={}: a short flag was generated, and
\* short is None still
C26_WitnessGenerated ==
    /\ cpc = "done"
    /\ cparsers = {}
    /\ copts.short = ShortNone
    /\ TheArgument.flags = <<"-f", "foo">>

(***************************************************************************)
(* The docstring: _parse_docstring normalizes the Google and the Numpy     *)
(* convention to field lists (GoogleDocstring, NumpyDocstring), docutils   *)
(* parses the text, and Visitor.visit_field collects the parameters and    *)
(* the raisable types of the field list.                                   *)
(***************************************************************************)
\* the most fields of a docstring, the most items of its sections
MaxFields == 3

MaxItems == 2

_PARAM_TYPES == {"param", "parameter", "arg", "argument", "key", "keyword"}

_TYPE_NAMES == {"type", "kwtype"}

\* a field `:doctype [type_] name: body` whose header has n parts; a name is
\* the sequence of its characters, a backslash-escaped one being two
Field(n, doctype, t, name, body) ==
    [n |-> n, doctype |-> doctype, type_ |-> t, name |-> name, body |-> body]

\* docutils: a backslash-escaped character is a null and the character
RECURSIVE Doctree(_)
Doctree(name) ==
    IF name = <<>> THEN <<>>
    ELSE IF name[1] = "\\" THEN <<"\\0">> \o Doctree(Tail(name))
    ELSE <<name[1]>> \o Doctree(Tail(name))

\* name.lstrip('*\0')
RECURSIVE lstrip(_)
lstrip(name) ==
    IF name # <<>> /\ name[1] \in {"*", "\\0"} THEN lstrip(Tail(name)) ELSE name

\* visitor.params, a defaultdict(dict) in insertion order: an entry has the
\* keys 'param' and 'type' that were set
ParamEntry(name) ==
    [name |-> name, hasparam |-> FALSE, param |-> "", hastype |-> FALSE,
     type_ |-> ""]

HasEntry(params, name) == \E i \in 1..Len(params) : params[i].name = name

EntryOf(params, name) ==
    IF HasEntry(params, name)
    THEN params[CHOOSE i \in 1..Len(params) : params[i].name = name]
    ELSE ParamEntry(name)

\* doctype in self.params[name]
HasKey(params, name, doctype) ==
    IF doctype = "param" THEN EntryOf(params, name).hasparam
    ELSE EntryOf(params, name).hastype

\* self.params[name][doctype] = text
SetKey(params, name, doctype, text) ==
    LET e == IF doctype = "param"
             THEN [EntryOf(params, name) EXCEPT !.hasparam = TRUE, !.param = text]
             ELSE [EntryOf(params, name) EXCEPT !.hastype = TRUE, !.type_ = text]
    IN  IF HasEntry(params, name)
        THEN [i \in 1..Len(params) |->
                IF params[i].name = name THEN e ELSE params[i]]
        ELSE Append(params, e)

\* the visitor: its params, its raises, the exception a field raised
Visited(params, raises) == [params |-> params, raises |-> raises, err |-> NoErr]

DefinedTwice(vis, doctype, name) ==
    [vis EXCEPT !.err = RErr("ValueError", "defined twice for", doctype, name)]

\* a folding that knows param and type only
KeepDoctype(doctype) == doctype

\* lines 993-996: the synonyms of param and of type
FoldDoctype(doctype) ==
    IF doctype \in _PARAM_TYPES THEN "param"
    ELSE IF doctype \in _TYPE_NAMES THEN "type"
    ELSE doctype

\* lines 997-1005 with the repeated declaration taken as the one that counts
VisitNamedOverwrite(vis, doctype, name, body) ==
    IF doctype \in {"param", "type"}
    THEN [vis EXCEPT !.params = SetKey(vis.params, name, doctype, body)]
    ELSE IF doctype = "raises"
    THEN [vis EXCEPT !.raises = Append(vis.raises, name)]
    ELSE vis

\* lines 997-1005, doctype folded
VisitNamed(vis, doctype, name, body) ==
    IF doctype \in {"param", "type"} /\ HasKey(vis.params, name, doctype)
    THEN DefinedTwice(vis, doctype, name)
    ELSE IF doctype \in {"param", "type"}
    THEN [vis EXCEPT !.params = SetKey(vis.params, name, doctype, body)]
    ELSE IF doctype = "raises"
    THEN [vis EXCEPT !.raises = Append(vis.raises, name)]
    ELSE vis

\* lines 984-990: the header `doctype type_ name`
VisitTyped(vis, doctype, t, name, body) ==
    IF doctype \notin _PARAM_TYPES THEN vis
    ELSE IF HasKey(vis.params, name, "type") THEN DefinedTwice(vis, "type", name)
    ELSE VisitNamed([vis EXCEPT !.params = SetKey(vis.params, name, "type", t)],
                    FoldDoctype(doctype), name, body)

\* Visitor.visit_field, lines 975-1005
visit_field(vis, f) ==
    IF f.n = 2
    THEN VisitNamed(vis, FoldDoctype(f.doctype), lstrip(Doctree(f.name)), f.body)
    ELSE IF f.n = 3
    THEN VisitTyped(vis, f.doctype, f.type_, lstrip(Doctree(f.name)), f.body)
    ELSE vis

\* inspect.Parameter(name, ..): the name is an identifier
IsIdentifier(name) ==
    /\ name # <<>>
    /\ \A i \in 1..Len(name) : name[i] \notin {"*", "\\", "\\0"}

\* a Signature: its parameters (name, annotation, doc), its doc, its raises
NoSig == [params |-> <<>>, doc |-> <<>>, raises |-> <<>>]

\* text.append(paragraph); text.append('\n\n'), lines 1025-1043
RECURSIVE JoinParagraphs(_)
JoinParagraphs(ps) ==
    IF ps = <<>> THEN <<>>
    ELSE <<ps[1], "\n\n">> \o JoinParagraphs(Tail(ps))

\* lines 1021-1044: Signature(params, doc=.., raises=visitor.raises)
MakeSignature(vis, text) ==
    IF \E i \in 1..Len(vis.params) : ~IsIdentifier(vis.params[i].name)
    THEN [err |-> RErr("ValueError", "is not a valid parameter name", "", <<>>),
          sig |-> NoSig]
    ELSE [err |-> NoErr,
          sig |-> [params |-> [i \in 1..Len(vis.params) |->
                                 [name |-> vis.params[i].name,
                                  annotation |-> IF vis.params[i].hastype
                                                 THEN vis.params[i].type_
                                                 ELSE "<empty>",
                                  doc |-> IF vis.params[i].hasparam
                                          THEN vis.params[i].param
                                          ELSE "<None>"]],
                   doc |-> JoinParagraphs(text),
                   raises |-> vis.raises]]

\* an item `name (type): desc` (Google) or `name : type` / desc (Numpy) of an
\* Args/Parameters section ("args") or a Keyword Arguments section ("kwargs")
Item(section, name, t, desc) ==
    [section |-> section, name |-> name, type_ |-> t, desc |-> desc]

\* _escape_args_and_kwargs, lines 802-809
_escape_args_and_kwargs(name) ==
    IF Len(name) >= 2 /\ name[1] = "*" /\ name[2] = "*"
    THEN <<"\\", "*", "\\", "*">> \o SubSeq(name, 3, Len(name))
    ELSE IF Len(name) >= 1 /\ name[1] = "*"
    THEN <<"\\", "*">> \o Tail(name)
    ELSE name

\* the fields of an item without the line of its type
ParamFieldOnly(item, field_role, type_role) ==
    <<Field(2, field_role, "", _escape_args_and_kwargs(item.name), item.desc)>>

\* _format_docutils_params, lines 853-868, for one item
FormatItem(item, field_role, type_role) ==
    <<Field(2, field_role, "", _escape_args_and_kwargs(item.name), item.desc)>>
    \o (IF item.type_ # ""
        THEN <<Field(2, type_role, "", _escape_args_and_kwargs(item.name),
                     item.type_)>>
        ELSE <<>>)

\* _parse_parameters_section, _parse_keyword_arguments_section
RECURSIVE FormatItems(_)
FormatItems(items) ==
    IF items = <<>> THEN <<>>
    ELSE (IF items[1].section = "kwargs"
          THEN FormatItem(items[1], "keyword", "kwtype")
          ELSE FormatItem(items[1], "param", "type"))
         \o FormatItems(Tail(items))

DocIdle ==
    /\ dstyle = ""
    /\ dtext = <<>>
    /\ ditems = <<>>
    /\ dfields = <<>>
    /\ dpc = "idle"
    /\ di = 1
    /\ dparams = <<>>
    /\ draises = <<>>
    /\ dsig = NoSig
    /\ derr = NoErr

\* the state at the call of _parse_docstring
DocStart(Styles, Texts, Items, Fields) ==
    /\ dstyle \in Styles
    /\ dtext \in Texts
    /\ ditems \in Items
    /\ dfields \in Fields
    /\ dpc = "raw"
    /\ di = 1
    /\ dparams = <<>>
    /\ draises = <<>>
    /\ dsig = NoSig
    /\ derr = NoErr

\* lines 845-848: str(GoogleDocstring(doc, cfg)), str(NumpyDocstring(doc, cfg));
\* a field list is left as it is
Normalize ==
    /\ dpc = "raw"
    /\ dfields' = IF dstyle = "sphinx" THEN dfields ELSE FormatItems(ditems)
    /\ dpc' = "fields"
    /\ UNCHANGED <<dstyle, dtext, ditems, di, dparams, draises, dsig, derr>>
    /\ UNCHANGED docOthers

\* tree.walkabout(visitor) at the next field
VisitField ==
    /\ dpc = "fields"
    /\ di <= Len(dfields)
    /\ LET vis == visit_field(Visited(dparams, draises), dfields[di])
       IN  IF vis.err # NoErr
           THEN /\ derr' = vis.err
                /\ dpc' = "error"
                /\ UNCHANGED <<di, dparams, draises>>
           ELSE /\ dparams' = vis.params
                /\ draises' = vis.raises
                /\ di' = di + 1
                /\ UNCHANGED <<derr, dpc>>
    /\ UNCHANGED <<dstyle, dtext, ditems, dfields, dsig>>
    /\ UNCHANGED docOthers

\* lines 1021-1044, after the last field
ReturnSignature ==
    /\ dpc = "fields"
    /\ di > Len(dfields)
    /\ LET r == MakeSignature(Visited(dparams, draises), dtext)
       IN  /\ dsig' = r.sig
           /\ derr' = r.err
           /\ dpc' = IF r.err = NoErr THEN "done" ELSE "error"
    /\ UNCHANGED <<dstyle, dtext, ditems, dfields, di, dparams, draises>>
    /\ UNCHANGED docOthers

DocNext ==
    \/ Normalize
    \/ VisitField
    \/ ReturnSignature

\* the visitor over the fields from the i-th on, up to the first exception
RECURSIVE VisitAll(_, _, _)
VisitAll(vis, fields, i) ==
    IF i > Len(fields) \/ vis.err # NoErr THEN vis
    ELSE VisitAll(visit_field(vis, fields[i]), fields, i + 1)

SignatureOf(vis, text) ==
    IF vis.err # NoErr THEN [err |-> vis.err, sig |-> NoSig]
    ELSE MakeSignature(vis, text)

\* _parse_docstring for a docstring in the canonical convention
_parse_docstring(fields, text) ==
    SignatureOf(VisitAll(Visited(<<>>, <<>>), fields, 1), text)

\* ---- docstrings in the canonical convention
FieldNames == {<<"a">>, <<"\\", "*", "a">>, <<"b">>}

DocFields ==
    {Field(1, "returns", "", <<>>, "t")}
    \cup {Field(2, d, "", n, "t") : d \in {"param", "arg"}, n \in FieldNames}
    \cup {Field(2, d, "", n, "int") : d \in {"type", "kwtype"}, n \in FieldNames}
    \cup {Field(2, "param", "", <<"\\", "*">>, "t")}
    \cup {Field(2, d, "", <<"a">>, "t") : d \in {"raises", "junk"}}
    \cup {Field(3, d, "int", n, "t") : d \in {"param", "keyword"}, n \in FieldNames}
    \cup {Field(3, d, "int", <<"a">>, "t") : d \in {"type", "junk"}}
    \cup {Field(4, "param", "int", <<"a">>, "t")}

DocInit ==
    DocStart({"sphinx"}, {<<"One line summary.">>}, {<<>>},
             SeqsUpTo(DocFields, 0, MaxFields))

\* ---- docstrings in the Google and in the Numpy convention
StyleItems ==
    {Item(s, n, t, d) : s \in {"args", "kwargs"},
                        n \in {<<"a">>, <<"*", "a">>, <<"*", "*", "b">>},
                        t \in {"", "int"}, d \in {"", "t"}}

StyleInit ==
    DocStart({"google", "numpy"},
             {<<>>, <<"One line summary.", "Extended description.">>},
             SeqsUpTo(StyleItems, 0, MaxItems), {<<>>})

(***************************************************************************)
(* Properties of the docstring.                                            *)
(***************************************************************************)
\* the synonyms of the two doctypes that declare a parameter
ParamSynonyms == {"param", "parameter", "arg", "argument", "key", "keyword"}

TypeSynonyms == {"type", "kwtype"}

Folded(doctype) ==
    IF doctype \in ParamSynonyms THEN "param"
    ELSE IF doctype \in TypeSynonyms THEN "type"
    ELSE doctype

\* the name a header declares: its escaped leading '*' are not part of it
Unstarred(name) == SelectSeq(name, LAMBDA c : c \notin {"*", "\\"})

\* the (canonical doctype, name) pairs a field declares
Declares(f) ==
    IF f.n = 2 THEN {<<Folded(f.doctype), Unstarred(f.name)>>}
    ELSE IF f.n = 3 /\ f.doctype \in ParamSynonyms
    THEN {<<"param", Unstarred(f.name)>>, <<"type", Unstarred(f.name)>>}
    ELSE {}

\* the pairs of doctypes ds that the j-th field declares again
Repeated(j, ds) ==
    {pr \in Declares(dfields[j]) :
        pr[1] \in ds /\ \E i \in 1..(j - 1) : pr \in Declares(dfields[i])}

AllDoctypes == {"param", "type", "raises", "junk", "returns"}

\* C5 (as stated): declaring the same (canonical doctype, name) pair twice in
\* one docstring is a ValueError, synonyms folded and `:param TYPE NAME:`
\* declaring both the param and the type of NAME.
C5_DeclaredTwiceIsError ==
    (dpc \in {"done", "error"}
       /\ \E j \in 1..Len(dfields) : Repeated(j, AllDoctypes) # {})
    => (dpc = "error" /\ derr.exc = "ValueError"
          /\ derr.msg = "defined twice for")

\* the first field that declares a param or a type again; 0 if none does
FirstRepeat ==
    IF \E j \in 1..Len(dfields) : Repeated(j, {"param", "type"}) # {}
    THEN MinOf({j \in 1..Len(dfields) : Repeated(j, {"param", "type"}) # {}})
    ELSE 0

\* C5 (amended): declaring the same (doctype, name) pair twice, for the
\* canonical doctypes param and type, is a ValueError '<doctype> defined
\* twice for <name>' raised at the second declaration, whichever of the two
\* comes first; no other field is an error of this kind (a raises field may
\* repeat).
C5_ParamOrTypeTwiceIsError ==
    /\ FirstRepeat # 0 =>
         /\ di <= FirstRepeat
         /\ dpc # "done"
         /\ dpc = "error" =>
              /\ di = FirstRepeat
              /\ derr.exc = "ValueError"
              /\ derr.msg = "defined twice for"
              /\ <<derr.param, derr.quoted>> \in Repeated(di, {"param", "type"})
    /\ (dpc = "error" /\ derr.msg = "defined twice for") => FirstRepeat # 0

\* test_parse_doubles: `:param int a:` then `:type a:`, and the other order
C5_Witness ==
    /\ dpc = "error"
    /\ dfields = <<Field(3, "param", "int", <<"a">>, "t"),
                   Field(2, "type", "", <<"a">>, "int")>>
    /\ derr = RErr("ValueError", "defined twice for", "type", <<"a">>)

C5_WitnessTypeFirst ==
    /\ dpc = "error"
    /\ dfields = <<Field(2, "kwtype", "", <<"a">>, "int"),
                   Field(3, "keyword", "int", <<"\\", "*", "a">>, "t")>>
    /\ derr = RErr("ValueError", "defined twice for", "type", <<"a">>)

\* `:raises a:` twice is parsed, a twice in raises
C5_RaisesTwiceParsed ==
    /\ dpc = "done"
    /\ dfields = <<Field(2, "raises", "", <<"a">>, "t"),
                   Field(2, "raises", "", <<"a">>, "t")>>
    /\ dsig.raises = <<(<<"a">>), (<<"a">>)>>

\* the field declares a parameter or the type of one
DeclaresKey(f) ==
    \/ f.n = 2 /\ f.doctype \in ParamSynonyms \cup TypeSynonyms
    \/ f.n = 3 /\ f.doctype \in ParamSynonyms

ExpectedKeys == {Unstarred(f.name) : f \in {g \in Range(dfields) : DeclaresKey(g)}}

SignatureKeys == {dsig.params[i].name : i \in 1..Len(dsig.params)}

\* C6: for a docstring in the canonical convention that parses without
\* error, the parameters' names are exactly the names declared by the
\* fields of a parameter synonym or a type synonym, leading '*' removed;
\* a field of another doctype or with a malformed header adds no name and
\* is never the field that raises.
C6_ParamsKeys ==
    /\ dpc = "done" =>
         /\ SignatureKeys = ExpectedKeys
         /\ Len(dsig.params) = Cardinality(ExpectedKeys)
    /\ SignatureKeys \subseteq ExpectedKeys
    /\ {dparams[i].name : i \in 1..Len(dparams)} \subseteq ExpectedKeys
    /\ dpc = "error" =>
         IF di <= Len(dfields) THEN DeclaresKey(dfields[di])
         ELSE \E k \in ExpectedKeys : k = <<>>

\* `:arg \*a:`, `:raises a:`, `:junk int a:`: one parameter, a
C6_Witness ==
    /\ dpc = "done"
    /\ dfields = <<Field(2, "arg", "", <<"\\", "*", "a">>, "t"),
                   Field(2, "raises", "", <<"a">>, "t"),
                   Field(3, "junk", "int", <<"a">>, "t")>>
    /\ SignatureKeys = {<<"a">>}

\* the field list one writes for the items of the sections: `:param TYPE
\* NAME: DESC` (`:keyword ..` for a keyword argument), the stars of the
\* name escaped
EscapeStars(name) ==
    IF name = <<>> THEN <<>>
    ELSE IF name[1] = "*" /\ Len(name) >= 2 /\ name[2] = "*"
    THEN <<"\\", "*", "\\", "*">> \o SubSeq(name, 3, Len(name))
    ELSE IF name[1] = "*" THEN <<"\\", "*">> \o Tail(name)
    ELSE name

CanonicalField(item) ==
    Field(IF item.type_ = "" THEN 2 ELSE 3,
          IF item.section = "kwargs" THEN "keyword" ELSE "param",
          item.type_, EscapeStars(item.name), item.desc)

CanonicalFields == [i \in 1..Len(ditems) |-> CanonicalField(ditems[i])]

C7_WitnessNumpy ==
    /\ dpc = "done"
    /\ dstyle = "numpy"
    /\ ditems = <<Item("args", <<"*", "a">>, "", "t"),
                  Item("kwargs", <<"*", "*", "b">>, "int", "")>>
    /\ dsig.params = <<[name |-> <<"a">>, annotation |-> "<empty>", doc |-> "t"],
                       [name |-> <<"b">>, annotation |-> "int", doc |-> ""]>>

(***************************************************************************)
(* The call wrapper: _bind_or_bind_known returns the call of the function  *)
(* with the parsed arguments, wrapped when the docstring declares          *)
(* raisable types.                                                         *)
(***************************************************************************)
\* the most types a docstring declares with :raises:
MaxRaises == 2

\* the exception classes of the model, and the base class of each
ExcTypes ==
    {"Exception", "ValueError", "UnicodeError", "RuntimeError", "OSError",
     "FileNotFoundError", "KeyboardInterrupt"}

Base(e) ==
    CASE e = "UnicodeError" -> "ValueError"
      [] e = "FileNotFoundError" -> "OSError"
      [] e \in {"ValueError", "RuntimeError", "OSError"} -> "Exception"
      [] OTHER -> "BaseException"

\* issubclass(e, t)
RECURSIVE IsSubclass(_, _)
IsSubclass(e, t) ==
    \/ e = t
    \/ e # "BaseException" /\ IsSubclass(Base(e), t)

\* an except clause that takes the declared types themselves only
ExceptExactly(raises, e) == \E i \in 1..Len(raises) : e = raises[i]

\* line 180: except sig.raises as e
ExceptMatches(raises, e) == \E i \in 1..Len(raises) : IsSubclass(e, raises[i])

\* how a call ended: it returned, an exception left it, or sys.exit(e)
Returned == [kind |-> "returned", exc |-> ""]

Raised(e) == [kind |-> "raised", exc |-> e]

Exit(e) == [kind |-> "exit", exc |-> e]

NoCall == [kind |-> "", exc |-> ""]

\* call(): the function with the parsed arguments, lines 170-173
CallPartial(f) == IF f = "return" THEN Returned ELSE Raised(f)

\* wrapper(), lines 176-182
CallWrapper(raises, f) ==
    IF f # "return" /\ ExceptMatches(raises, f) THEN Exit(f)
    ELSE CallPartial(f)

BindIdle ==
    /\ braises = <<>>
    /\ bfunc = ""
    /\ bpc = "idle"
    /\ bcall = ""
    /\ bresult = NoCall

BindInit ==
    /\ braises \in SeqsUpTo(ExcTypes, 0, MaxRaises)
    /\ bfunc \in {"return"} \cup ExcTypes
    /\ bpc = "new"
    /\ bcall = ""
    /\ bresult = NoCall

\* _bind_or_bind_known, lines 175-186: if sig.raises: .. return wrapper
Bind ==
    /\ bpc = "new"
    /\ bcall' = IF braises # <<>> THEN "wrapper" ELSE "partial"
    /\ bpc' = "bound"
    /\ UNCHANGED <<braises, bfunc, bresult>>
    /\ UNCHANGED bindOthers

\* the caller calls what bind returned
CallBound ==
    /\ bpc = "bound"
    /\ bresult' = IF bcall = "wrapper" THEN CallWrapper(braises, bfunc)
                  ELSE CallPartial(bfunc)
    /\ bpc' = "called"
    /\ UNCHANGED <<braises, bfunc, bcall>>
    /\ UNCHANGED bindOthers

BindNext ==
    \/ Bind
    \/ CallBound

(***************************************************************************)
(* Properties of the call wrapper.                                         *)
(***************************************************************************)
\* the type is one that a :raises: field of the docstring names
DeclaredRaisable(e) == e \in Range(braises)

\* the type is a declared one or derives from a declared one
OfDeclaredKind(e) ==
    \E t \in Range(braises) :
       \/ e = t
       \/ t = "Exception" /\ e # "KeyboardInterrupt"
       \/ t = "ValueError" /\ e = "UnicodeError"
       \/ t = "OSError" /\ e = "FileNotFoundError"

\* C8 (as stated): an exception whose type the docstring declares with
\* ':raises TYPE:' becomes SystemExit carrying it, an exception of any type
\* not declared there propagates unmodified, and with no declared type the
\* bound call is the plain partial.
C8_DeclaredOnlyExit ==
    /\ bpc \in {"bound", "called"} =>
         (bcall = "partial" <=> braises = <<>>)
    /\ (bpc = "called" /\ bfunc # "return") =>
         bresult = IF DeclaredRaisable(bfunc) THEN Exit(bfunc) ELSE Raised(bfunc)
    /\ (bpc = "called" /\ bfunc = "return") => bresult = Returned

\* C8 (amended): an exception whose type is declared with ':raises TYPE:'
\* or is a subclass of a declared type becomes SystemExit carrying it, an
\* exception of any other type propagates unmodified, and with no declared
\* type the bound call is the plain partial.
C8_DeclaredKindExit ==
    /\ bpc \in {"bound", "called"} =>
         (bcall = "partial" <=> braises = <<>>)
    /\ (bpc = "called" /\ bfunc # "return") =>
         bresult = IF OfDeclaredKind(bfunc) THEN Exit(bfunc) ELSE Raised(bfunc)
    /\ (bpc = "called" /\ bfunc = "return") => bresult = Returned

\* :raises OSError: and a function that raises FileNotFoundError
C8_Witness ==
    /\ bpc = "called"
    /\ braises = <<"OSError">>
    /\ bfunc = "FileNotFoundError"
    /\ bcall = "wrapper"
    /\ bresult = Exit("FileNotFoundError")

\* test_exceptions: :raises RuntimeError: and a function that raises ValueError
C8_WitnessPropagates ==
    /\ bpc = "called"
    /\ braises = <<"RuntimeError">>
    /\ bfunc = "ValueError"
    /\ bresult = Raised("ValueError")

(***************************************************************************)
(* The style normalizer, line by line: inspect.cleandoc, then               *)
(* GoogleDocstring and NumpyDocstring (_defopt_napoleon.py) over the        *)
(* lines of the docstring.  A line is ind spaces, the text w (for a         *)
(* directive made by the normalizer, arg is the text after it) and, when    *)
(* trail, spaces after the text; a line of ind > 0 spaces and no text is    *)
(* made of spaces only.                                                     *)
(***************************************************************************)
\* the longest docstring, in lines
MaxLines == 3

Line(ind, w, trail) == [ind |-> ind, w |-> w, arg |-> <<>>, trail |-> trail]

\* ''
EmptyLine == Line(0, "", FALSE)

\* line.rstrip()
RStripLine(l) ==
    [l EXCEPT !.trail = FALSE, !.ind = IF l.w = "" THEN 0 ELSE @]

RStripLines(ls) == [i \in 1..Len(ls) |-> RStripLine(ls[i])]

\* line.lstrip()
LStripLine(l) == [l EXCEPT !.ind = 0]

\* inspect.cleandoc: the indentation common to the lines after the first,
\* -1 when none of them has text
Margin(ls) ==
    LET S == {ls[i].ind : i \in {j \in 2..Len(ls) : ls[j].w # ""}}
    IN  IF S = {} THEN -1 ELSE MinOf(S)

\* line[margin:]
CutMargin(l, m) == [l EXCEPT !.ind = IF @ > m THEN @ - m ELSE 0]

\* while lines and not lines[-1]: lines.pop()
DropTrailingEmpty(ls) ==
    LET keep == {i \in 1..Len(ls) : ls[i] # EmptyLine}
    IN  IF keep = {} THEN <<>>
        ELSE SubSeq(ls, 1, CHOOSE m \in keep : \A k \in keep : k <= m)

\* the number of '' lines at the head of the lines
LeadingEmpty(ls) ==
    LET keep == {i \in 1..Len(ls) : ls[i] # EmptyLine}
    IN  IF keep = {} THEN Len(ls) ELSE MinOf(keep) - 1

\* while lines and not lines[0]: lines.pop(0)
DropLeadingEmpty(ls) == SubSeq(ls, LeadingEmpty(ls) + 1, Len(ls))

cleandoc(ls) ==
    LET m == Margin(ls)
        cut == [i \in 1..Len(ls) |->
                  IF i = 1 THEN LStripLine(ls[1])
                  ELSE IF m >= 0 THEN CutMargin(ls[i], m) ELSE ls[i]]
    IN  DropLeadingEmpty(DropTrailingEmpty(cut))

\* '\n'.join(lines).splitlines(): a last '' line is no line of the text
SplitLines(ls) ==
    IF ls # <<>> /\ ls[Len(ls)] = EmptyLine THEN SubSeq(ls, 1, Len(ls) - 1)
    ELSE ls

\* the section names of the model (self._sections, lines 613-644)
Sections == {"note", "args", "parameters"}

\* the sections of lines 613-644 that are parsed by _parse_parameters_section
ParamSections == {"args", "parameters"}

\* str.lower(), on the words of the model
Lower(w) ==
    CASE w = "Note:" -> "note:"
      [] w = "Note" -> "note"
      [] w = "Foo:" -> "foo:"
      [] w = "Args:" -> "args:"
      [] w = "Parameters" -> "parameters"
      [] OTHER -> w

\* str.strip(':'), on the words of the model
StripColon(w) ==
    CASE w = "note:" -> "note"
      [] w = "foo:" -> "foo"
      [] w = "args:" -> "args"
      [] w = "x:" -> "x"
      [] OTHER -> w

\* line 498: ^(\s|\w)+:\s*$
_google_section_regex(l) ==
    l.w \in {"Note:", "Foo:", "note:", "foo:", "Args:", "args:", "x:"}

\* line 500: ^[=\-`:'"~^_*+#<>]{2,}\s*$
_numpy_section_regex(l) == l.w = "----" /\ l.ind = 0

\* lines 920-934, from the line at index from
_get_current_indent(ls, from) ==
    LET text == {i \in from..Len(ls) : ls[i] # EmptyLine}
    IN  IF text = {} THEN 0 ELSE ls[MinOf(text)].ind

\* lines 965-972
_is_indented(l, indent) == l # EmptyLine /\ l.ind >= indent

\* GoogleDocstring._is_section_header (992-1005) that does not look at what
\* follows the header
GoogleHeaderByWord(ls) ==
    /\ _google_section_regex(ls[1])
    /\ ls[1].ind = 0
    /\ StripColon(Lower(ls[1].w)) \in Sections

\* GoogleDocstring._is_section_header, lines 992-1005; the stripped line is
\* a section name only when it has no indentation
GoogleHeader(ls) ==
    /\ _google_section_regex(ls[1])
    /\ ls[1].ind = 0
    /\ StripColon(Lower(ls[1].w)) \in Sections
    /\ _get_current_indent(ls, 2) > ls[1].ind

\* NumpyDocstring._is_section_header, lines 1428-1439 (no line of the model
\* is the '.. index::' directive)
NumpyHeader(ls) ==
    /\ ls[1].ind = 0
    /\ Lower(ls[1].w) \in Sections
    /\ Len(ls) >= 2
    /\ _numpy_section_regex(ls[2])

_is_section_header(style, ls) ==
    IF style = "google" THEN GoogleHeader(ls) ELSE NumpyHeader(ls)

\* _is_section_break: lines 1007-1014, and 1417-1426 for Numpy
_is_section_break(style, ls, in_section, section_indent) ==
    \/ ls = <<>>
    \/ _is_section_header(style, ls)
    \/ style = "numpy" /\ Len(ls) >= 2 /\ ls[1] = EmptyLine /\ ls[2] = EmptyLine
    \/ in_section /\ ls[1] # EmptyLine /\ ~_is_indented(ls[1], section_indent)

\* what a consumer took from the head of the lines, and what it left
\* (calls: the instances of the class that it made for the description of an
\* item, as [outer |-> the lines that were pending when the section began,
\* inner |-> the lines given to the instance])
Took(out, rest) == [out |-> out, rest |-> rest, calls |-> {}]

\* lines 694-701
_consume_empty(ls) ==
    Took(SubSeq(ls, 1, LeadingEmpty(ls)), DropLeadingEmpty(ls))

\* lines 687-692
RECURSIVE _consume_contiguous(_, _, _)
_consume_contiguous(style, ls, acc) ==
    IF ls # <<>> /\ ls[1] # EmptyLine /\ ~_is_section_header(style, ls)
    THEN _consume_contiguous(style, Tail(ls), Append(acc, ls[1]))
    ELSE Took(acc, ls)

\* the loop of lines 790-791
RECURSIVE UntilSectionBreak(_, _, _, _, _)
UntilSectionBreak(style, ls, in_section, section_indent, acc) ==
    IF _is_section_break(style, ls, in_section, section_indent)
    THEN Took(acc, ls)
    ELSE UntilSectionBreak(style, Tail(ls), in_section, section_indent,
                           Append(acc, ls[1]))

\* lines 786-792: the empty lines at the head are dropped
_consume_to_next_section(style, ls, in_section, section_indent) ==
    LET body == UntilSectionBreak(style, _consume_empty(ls).rest, in_section,
                                  section_indent, <<>>)
        tail == _consume_empty(body.rest)
    IN  Took(body.out \o tail.out, tail.rest)

\* lines 1275-1293
_strip_empty(ls) == DropLeadingEmpty(DropTrailingEmpty(ls))

\* lines 794-800, full=False
_dedent(ls) ==
    LET S == {ls[i].ind : i \in {j \in 1..Len(ls) : ls[j] # EmptyLine}}
        m == IF S = {} THEN 0 ELSE MinOf(S)
    IN  [i \in 1..Len(ls) |-> CutMargin(ls[i], m)]

\* lines 961-963
_indent(ls, n) == [i \in 1..Len(ls) |-> [ls[i] EXCEPT !.ind = @ + n]]

\* '.. note:: ' + text, or '.. note::'
Directive(text) == [Line(0, ".. note::", FALSE) EXCEPT !.arg = text]

\* lines 825-834
_format_admonition(ls) ==
    LET lines == _strip_empty(ls)
    IN  IF Len(lines) = 1
        THEN <<Directive(<<lines[1].w>> \o lines[1].arg), EmptyLine>>
        ELSE IF lines # <<>>
        THEN <<Directive(<<>>), EmptyLine>> \o _indent(_dedent(lines), 3)
                 \o <<EmptyLine>>
        ELSE <<Directive(<<>>), EmptyLine>>

\* ' ' * n (the empty string when n <= 0)
RECURSIVE Spaces(_)
Spaces(n) == IF n <= 0 THEN "" ELSE " " \o Spaces(n - 1)

\* ' '.join(words)
RECURSIVE JoinWords(_)
JoinWords(ws) ==
    IF ws = <<>> THEN ""
    ELSE IF Len(ws) = 1 THEN ws[1]
    ELSE ws[1] \o " " \o JoinWords(Tail(ws))

\* ':role name: text' (':role name:' when there is no text), a line made by
\* _format_docutils_params
FieldLine(role, name, text) ==
    [ind |-> 0, w |-> ":" \o role, arg |-> <<name, text>>, trail |-> FALSE]

\* the text of a line after its indentation
LineText(l) ==
    IF l.w \in {":param", ":type"}
    THEN l.w \o " " \o l.arg[1] \o ":"
             \o (IF l.arg[2] = "" THEN "" ELSE " " \o l.arg[2])
    ELSE IF l.arg = <<>> THEN l.w
    ELSE l.w \o " " \o JoinWords(l.arg)

\* lines 1240-1258, on the lines of the model: the text before the first
\* single colon, the colon, and the text after it, both stripped
_partition_field_on_colon(l) ==
    CASE l.w = "x: text" -> <<"x", ":", "text">>
      [] l.w = "x:" -> <<"x", ":", "">>
      [] l.w = "Args:" -> <<"Args", ":", "">>
      [] l.w = ":param" ->
            <<"", ":", "param " \o l.arg[1] \o ":"
                         \o (IF l.arg[2] = "" THEN "" ELSE " " \o l.arg[2])>>
      [] l.w = ":type" ->
            <<"", ":", "type " \o l.arg[1] \o ":"
                         \o (IF l.arg[2] = "" THEN "" ELSE " " \o l.arg[2])>>
      [] l.w \in {"", "text", "Parameters", "----"} -> <<l.w, "", "">>

\* line 711: _google_typed_arg_regex, 'name (type)'; no text of the model
\* has a parenthesis
TypedArg(before) == <<before, "">>

\* lines 802-809, on the names of the model, none of which starts with '*'
EscapedName(name) == name

\* lines 677-685
RECURSIVE _consume_indented_block(_, _, _, _, _)
_consume_indented_block(style, ls, section_indent, indent, acc) ==
    IF /\ ~_is_section_break(style, ls, TRUE, section_indent)
       /\ (ls[1] = EmptyLine \/ _is_indented(ls[1], indent))
    THEN _consume_indented_block(style, Tail(ls), section_indent, indent,
                                 Append(acc, ls[1]))
    ELSE Took(acc, ls)

\* self.__class__(docstring, self._config).lines(): the parsed lines of a
\* new instance, and the instances made for it
RECURSIVE Lines(_, _), _parse(_, _, _, _), ParseTurn(_, _, _),
          ParseSection(_, _), _parse_parameters_section(_, _, _, _),
          _consume_fields(_, _, _, _), FieldsUntilBreak(_, _, _, _, _, _),
          _consume_field(_, _, _, _)

\* what an instance made for a description was given, and the lines that
\* were pending in the instance that made it
DescCall(queue, descs) == [outer |-> Len(queue), inner |-> Len(descs)]

\* lines 703-723 (Google) and 1391-1403 (Numpy), parse_type=True,
\* prefer_type=False: the line of the item, the indented block after it,
\* and the description parsed by a new instance of the class
_consume_field(style, ls, section_indent, queue) ==
    LET line == ls[1]
        p == _partition_field_on_colon(line)
        typed == TypedArg(p[1])
        block == _consume_indented_block(style, Tail(ls), section_indent,
                                         line.ind + 1, <<>>)
        descs == IF style = "google"
                 THEN <<Line(0, p[3], FALSE)>> \o _dedent(block.out)
                 ELSE _dedent(block.out)
        inner == Lines(style, descs)
    IN  [name |-> EscapedName(IF style = "google" THEN typed[1] ELSE p[1]),
         type |-> IF style = "google" THEN typed[2] ELSE p[3],
         desc |-> inner.out,
         rest |-> block.rest,
         calls |-> {DescCall(queue, descs)} \cup inner.calls]

\* the loop of lines 729-732
FieldsUntilBreak(style, ls, section_indent, queue, fields, calls) ==
    IF _is_section_break(style, ls, TRUE, section_indent)
    THEN [fields |-> fields, rest |-> ls, calls |-> calls]
    ELSE LET f == _consume_field(style, ls, section_indent, queue)
         IN  FieldsUntilBreak(
                 style, f.rest, section_indent, queue,
                 IF f.name # "" \/ f.type # "" \/ f.desc # <<>>
                 THEN Append(fields, f) ELSE fields,
                 calls \cup f.calls)

\* lines 725-733
_consume_fields(style, ls, section_indent, queue) ==
    FieldsUntilBreak(style, _consume_empty(ls).rest, section_indent, queue,
                     <<>>, {})

\* str.endswith('::'), on the lines of the model
EndsWithColons(l) == l.w = ".. note::" /\ l.arg = <<>>

\* lines 974-990; no text of the model starts with a bullet or an enumerator
_is_list(ls) ==
    /\ Len(ls) >= 2
    /\ ~EndsWithColons(ls[1])
    /\ _get_current_indent(ls, 2) > ls[1].ind

\* lines 811-823
_fix_field_desc(desc) ==
    IF _is_list(desc) THEN <<EmptyLine>> \o desc
    ELSE IF EndsWithColons(desc[1])
    THEN IF _get_current_indent(Tail(desc), 1) > desc[1].ind
         THEN <<EmptyLine>> \o desc
         ELSE <<EmptyLine, desc[1]>> \o _indent(Tail(desc), 4)
    ELSE desc

\* lines 836-851, for the prefix ':role name: '
_format_block(role, name, ls) ==
    LET prefix == ":" \o role \o " " \o name \o ": "
    IN  [i \in 1..Len(ls) |->
           IF i = 1
           THEN FieldLine(role, name,
                          IF ls[1].w = "" THEN ""
                          ELSE Spaces(ls[1].ind) \o LineText(ls[1]))
           ELSE IF ls[i] # EmptyLine
           THEN [ls[i] EXCEPT !.ind = @ + Len(prefix)]
           ELSE EmptyLine]

\* the turn of the loop of lines 857-867 for one item
FormatParam(f) ==
    LET desc == _strip_empty(f.desc)
    IN  (IF \E i \in 1..Len(desc) : desc[i] # EmptyLine
         THEN _format_block("param", f.name, _fix_field_desc(desc))
         ELSE <<FieldLine("param", f.name, "")>>)
        \o (IF f.type # "" THEN <<FieldLine("type", f.name, f.type)>>
            ELSE <<>>)

\* lines 853-868
RECURSIVE _format_docutils_params(_)
_format_docutils_params(fields) ==
    IF fields = <<>> THEN <<EmptyLine>>
    ELSE FormatParam(fields[1]) \o _format_docutils_params(Tail(fields))

\* lines 1169-1175, napoleon_use_param being True
_parse_parameters_section(style, ls, section_indent, queue) ==
    LET fs == _consume_fields(style, ls, section_indent, queue)
    IN  [out |-> _format_docutils_params(fs.fields), rest |-> fs.rest,
         calls |-> fs.calls]

\* the name that line 1055 looks up in self._sections
SectionName(style, l) ==
    IF style = "google" THEN StripColon(Lower(l.w)) ELSE Lower(l.w)

\* lines 1049-1060: the header is consumed (with its underline, lines
\* 1409-1415), and the section's lines become the fields of the items
\* (1169-1175) or an admonition (1068-1071)
ParseSection(style, ls) ==
    LET rest == IF style = "google" THEN Tail(ls) ELSE Tail(Tail(ls))
        indent == _get_current_indent(rest, 1)
        body == _consume_to_next_section(style, rest, TRUE, indent)
    IN  IF SectionName(style, ls[1]) \in ParamSections
        THEN _parse_parameters_section(style, rest, indent, ls)
        ELSE Took(_format_admonition(body.out), body.rest)

\* one turn of the loop of _parse, lines 1048-1066
ParseTurn(style, ls, parsed) ==
    IF _is_section_header(style, ls) THEN ParseSection(style, ls)
    ELSE IF parsed = <<>>
    THEN LET c == _consume_contiguous(style, ls, <<>>)
             e == _consume_empty(c.rest)
         IN  Took(c.out \o e.out, e.rest)
    ELSE _consume_to_next_section(style, ls, FALSE, 0)

\* line 1048: while self._lines, with one line left taken for none
pending_more(lines) == Len(lines) > 1

\* line 1048: while self._lines
pending(lines) == lines # <<>>

\* the loop of _parse, lines 1048-1066
_parse(style, ls, parsed, calls) ==
    IF pending(ls)
    THEN LET t == ParseTurn(style, ls, parsed)
         IN  _parse(style, t.rest, parsed \o t.out, calls \cup t.calls)
    ELSE [out |-> parsed, calls |-> calls]

\* __init__ (606-609), _parse (1033-1066) and lines() (665-675) for a list
\* of lines
Lines(style, docstring) ==
    LET e == _consume_empty(RStripLines(docstring))
    IN  _parse(style, e.rest, e.out, {})

\* the lines of the docstrings of the model
NapLines ==
    {Line(0, "", FALSE), Line(2, "", FALSE),
     Line(0, "Note", FALSE), Line(0, "Foo:", FALSE), Line(0, "----", FALSE),
     Line(0, "Note: x", FALSE)}
    \cup {Line(ind, w, trail) :
            ind \in {0, 2}, w \in {"text", "Note:"}, trail \in BOOLEAN}

NapIdle ==
    /\ nraw = <<>>
    /\ ndoc = <<>>
    /\ nstyle = ""
    /\ nlines = <<>>
    /\ nparsed = <<>>
    /\ npc = "idle"
    /\ nout = <<>>

NapInit ==
    /\ nraw \in SeqsUpTo(NapLines, 0, MaxLines)
    /\ ndoc = <<>>
    /\ nstyle = ""
    /\ nlines = <<>>
    /\ nparsed = <<>>
    /\ npc = "raw"
    /\ nout = <<>>

\* ---- docstrings with sections of items, Google and Numpy, some with a
\* ---- section inside the description of an item
MaxFieldLines == 5

FieldLines ==
    {EmptyLine,
     Line(0, "Args:", FALSE), Line(4, "Args:", FALSE),
     Line(0, "Parameters", FALSE), Line(0, "----", FALSE),
     Line(2, "x: text", FALSE), Line(6, "x: text", FALSE),
     Line(2, "x:", FALSE),
     Line(0, "text", FALSE), Line(4, "text", FALSE)}

FieldsInit ==
    /\ nraw \in SeqsUpTo(FieldLines, 0, MaxFieldLines)
    /\ ndoc = <<>>
    /\ nstyle = ""
    /\ nlines = <<>>
    /\ nparsed = <<>>
    /\ npc = "raw"
    /\ nout = <<>>

\* defopt.py line 845: doc = inspect.cleandoc(doc)
Cleandoc ==
    /\ npc = "raw"
    /\ ndoc' = cleandoc(nraw)
    /\ npc' = "clean"
    /\ UNCHANGED <<nraw, nstyle, nlines, nparsed, nout>>
    /\ UNCHANGED napOthers

\* __init__ (606-609) and the first line of _parse (1035), for the text
StartParse(style, text) ==
    LET e == _consume_empty(RStripLines(SplitLines(text)))
    IN  /\ nstyle' = style
        /\ nparsed' = e.out
        /\ nlines' = e.rest
        /\ npc' = "parsing"

\* defopt.py line 847: GoogleDocstring(doc, cfg)
GoogleDocstring ==
    /\ npc = "clean"
    /\ StartParse("google", ndoc)
    /\ UNCHANGED <<nraw, ndoc, nout>>
    /\ UNCHANGED napOthers

\* one turn of the loop of _parse
ParseLines ==
    /\ npc = "parsing"
    /\ pending(nlines)
    /\ LET t == ParseTurn(nstyle, nlines, nparsed)
       IN  /\ nparsed' = nparsed \o t.out
           /\ nlines' = t.rest
    /\ UNCHANGED <<nraw, ndoc, nstyle, npc, nout>>
    /\ UNCHANGED napOthers

\* defopt.py line 848: NumpyDocstring(str(..), cfg)
NumpyDocstring ==
    /\ npc = "parsing"
    /\ ~pending(nlines)
    /\ nstyle = "google"
    /\ StartParse("numpy", nparsed)
    /\ UNCHANGED <<nraw, ndoc, nout>>
    /\ UNCHANGED napOthers

\* defopt.py line 848: doc = str(..)
NormalizedDoc ==
    /\ npc = "parsing"
    /\ ~pending(nlines)
    /\ nstyle = "numpy"
    /\ nout' = nparsed
    /\ npc' = "done"
    /\ UNCHANGED <<nraw, ndoc, nstyle, nlines, nparsed>>
    /\ UNCHANGED napOthers

NapNext ==
    \/ Cleandoc
    \/ GoogleDocstring
    \/ ParseLines
    \/ NumpyDocstring
    \/ NormalizedDoc

(***************************************************************************)
(* Properties of the style normalizer.                                     *)
(***************************************************************************)
\* '\n'.join(lines): no line and one '' line are the same text
Text(ls) == IF ls = <<EmptyLine>> THEN <<>> ELSE ls

\* line i of the text is a recognized section header: a Google header (a
\* section name and a colon, followed by more-indented content) or a Numpy
\* header (a section name, underlined)
HeaderAt(ls, i) ==
    \/ /\ ls[i] = Line(0, "Note:", FALSE)
       /\ \E j \in (i + 1)..Len(ls) :
             /\ ls[j].w # "" /\ ls[j].ind > 0
             /\ \A k \in (i + 1)..(j - 1) : ls[k] = EmptyLine
    \/ /\ ls[i] = Line(0, "Note", FALSE)
       /\ i < Len(ls)
       /\ ls[i + 1] = Line(0, "----", FALSE)

NoHeader(ls) == \A i \in 1..Len(ls) : ~HeaderAt(RStripLines(ls), i)

NoTrailingSpace(ls) == \A i \in 1..Len(ls) : RStripLine(ls[i]) = ls[i]

C16_WitnessNoUnderline ==
    /\ npc = "done"
    /\ ndoc = <<Line(0, "Note", FALSE), Line(0, "text", FALSE)>>
    /\ NoHeader(ndoc)
    /\ nout = ndoc

\* a line that ends with spaces is emitted without them
C16_WitnessTrailingSpace ==
    /\ npc = "done"
    /\ ndoc = <<Line(0, "text", TRUE)>>
    /\ NoHeader(ndoc)
    /\ nout = <<Line(0, "text", FALSE)>>

\* a recognized header is rewritten
C16_WitnessSection ==
    /\ npc = "done"
    /\ ndoc = <<Line(0, "Note:", FALSE), Line(2, "text", FALSE)>>
    /\ nout = <<Directive(<<"text">>)>>

\* one or more of the first lines of the queue were removed, and nothing
\* else happened to it
LinesRemoved ==
    /\ Len(nlines') < Len(nlines)
    /\ nlines' = SubSeq(nlines, Len(nlines) - Len(nlines') + 1, Len(nlines))

\* a turn of the main loop removes lines from the head of the queue
TurnRemovesLines ==
    (npc = "parsing" /\ npc' = "parsing" /\ nstyle' = nstyle) => LinesRemoved

\* a pass ends with an empty queue
PassEndsEmpty ==
    (npc = "parsing" /\ (npc' = "done" \/ nstyle' # nstyle)) => nlines = <<>>

\* the instances that the next turn of the main loop makes for the
\* descriptions of items, at every depth
NextCalls ==
    IF npc = "parsing" /\ nlines # <<>>
    THEN ParseTurn(nstyle, nlines, nparsed).calls
    ELSE {}

\* every such instance is given fewer lines than were pending in the
\* instance that made it when the section began (which are at most the
\* lines that instance was given)
DescriptionsShorter == \A c \in NextCalls : c.inner < c.outer

QueueEmptyAtEnd == npc = "done" => nlines = <<>>

\* C30: every turn of the main loop removes at least one line from the head
\* of the pending-line queue, the normalization of an item's description is
\* applied to strictly fewer lines than the enclosing input, and a pass
\* finishes with an empty queue: every line was consumed exactly once
C30_EveryTurnConsumes ==
    /\ [](DescriptionsShorter /\ QueueEmptyAtEnd)
    /\ [][TurnRemovesLines /\ PassEndsEmpty]_vars

\* a Google section whose item has a section in its description: the
\* instance made for the description makes one for its own item
C30_Witness ==
    /\ npc = "parsing"
    /\ nstyle = "google"
    /\ nlines = <<Line(0, "Args:", FALSE), Line(2, "x:", FALSE),
                  Line(4, "Args:", FALSE), Line(6, "x: text", FALSE),
                  Line(0, "text", FALSE)>>
    /\ NextCalls = {[outer |-> 5, inner |-> 3], [outer |-> 2, inner |-> 1]}

\* the same docstring, normalized
C30_WitnessNormalized ==
    /\ npc = "done"
    /\ ndoc = <<Line(0, "Args:", FALSE), Line(2, "x:", FALSE),
                Line(4, "Args:", FALSE), Line(6, "x: text", FALSE),
                Line(0, "text", FALSE)>>
    /\ nlines = <<>>
    /\ nout = <<FieldLine("param", "x", ":param x: text"), EmptyLine,
                Line(0, "text", FALSE)>>

\* a Numpy section with an item and its description
C30_WitnessNumpy ==
    /\ npc = "parsing"
    /\ nstyle = "numpy"
    /\ nlines = <<Line(0, "Parameters", FALSE), Line(0, "----", FALSE),
                  Line(2, "x: text", FALSE), Line(4, "text", FALSE)>>
    /\ NextCalls = {[outer |-> 4, inner |-> 1]}

(***************************************************************************)
(* signature(doc), the memoized entry point, called from threads: the       *)
(* lru_cache lookup, the registration of the pass-through roles in          *)
(* docutils' role registry (_sphinx_common_roles), publish_doctree, their   *)
(* removal, and the visitor.  A thread switch can happen between any two    *)
(* of these steps, and between two assignments or pops of the registry.     *)
(***************************************************************************)
\* the most calls of signature by a thread that runs alone
MaxCalls == 3

\* the most calls of signature by each of two threads
ThreadCalls == 2

Threads == {1, 2}

\* a docstring: its description, its fields, and the role its text uses
PipeDoc(text, fields, role) == [text |-> text, fields |-> fields, role |-> role]

PlainDoc == PipeDoc(<<"One line summary.">>, <<Field(2, "param", "", <<"a">>, "t")>>, "")

FuncDoc == PipeDoc(<<"See func.">>, <<Field(3, "param", "int", <<"a">>, "t")>>, "func")

PyFuncDoc == PipeDoc(<<"See py:func.">>, <<Field(2, "raises", "", <<"a">>, "t")>>, "py:func")

TwiceDoc ==
    PipeDoc(<<"Twice.">>,
            <<Field(2, "param", "", <<"a">>, "t"), Field(2, "param", "", <<"a">>, "t")>>,
            "")

PipeDocs == {PlainDoc, FuncDoc, PyFuncDoc, TwiceDoc}

\* lines 791-823: the names that the role 'py:func' is registered under,
\* role.split(':', i)[-1] for i = 0, 1
RoleNames == <<"py:func", "func">>

NoOutcome == [err |-> NoErr, sig |-> NoSig]

Failure(exc, msg, what) == [err |-> RErr(exc, msg, what, <<>>), sig |-> NoSig]

\* a call of signature that returned or raised: the docstring, whether the
\* cache served it, and the outcome
Served(d, hit, res) == [doc |-> d, hit |-> hit, res |-> res]

\* a lookup that takes any entry of the cache
CacheGetAny(d, cache) == cache

\* functools.lru_cache: the entries of the cache under the key d
CacheGet(d, cache) == {e \in cache : e[1] = d}

PipeIdle ==
    /\ tpc = [t \in Threads |-> "off"]
    /\ tleft = [t \in Threads |-> 0]
    /\ tdoc = [t \in Threads |-> PlainDoc]
    /\ ti = [t \in Threads |-> 1]
    /\ ttree = [t \in Threads |-> ""]
    /\ thist = [t \in Threads |-> <<>>]
    /\ roleMap = {}
    /\ memo = {}

\* the threads before their first call; calls[t] is how many calls t makes
PipeStart(calls) ==
    /\ tpc = [t \in Threads |-> IF calls[t] > 0 THEN "idle" ELSE "off"]
    /\ tleft = calls
    /\ tdoc = [t \in Threads |-> PlainDoc]
    /\ ti = [t \in Threads |-> 1]
    /\ ttree = [t \in Threads |-> ""]
    /\ thist = [t \in Threads |-> <<>>]
    /\ roleMap = {}
    /\ memo = {}

\* one thread
MemoInit == PipeStart([t \in Threads |-> IF t = 1 THEN MaxCalls ELSE 0])

\* two threads
ThreadsInit == PipeStart([t \in Threads |-> ThreadCalls])

\* signature(d), line 442: the cache's entry, or the call of _parse_docstring
SignatureCall(t, d) ==
    /\ tpc[t] = "idle"
    /\ tleft[t] > 0
    /\ tleft' = [tleft EXCEPT ![t] = @ - 1]
    /\ tdoc' = [tdoc EXCEPT ![t] = d]
    /\ IF CacheGet(d, memo) # {}
       THEN /\ thist' = [thist EXCEPT ![t] =
                           Append(@, Served(d, TRUE,
                                            (CHOOSE e \in CacheGet(d, memo) : TRUE)[2]))]
            /\ UNCHANGED <<tpc, ti>>
       ELSE /\ tpc' = [tpc EXCEPT ![t] = "register"]
            /\ ti' = [ti EXCEPT ![t] = 1]
            /\ UNCHANGED thist
    /\ UNCHANGED <<ttree, roleMap, memo>>
    /\ UNCHANGED pipeOthers

\* lines 821-823: role_map[name] = _passthrough_role, for the next name
RegisterRole(t) ==
    /\ tpc[t] = "register"
    /\ roleMap' = roleMap \cup {RoleNames[ti[t]]}
    /\ IF ti[t] = Len(RoleNames)
       THEN tpc' = [tpc EXCEPT ![t] = "publish"] /\ ti' = [ti EXCEPT ![t] = 1]
       ELSE ti' = [ti EXCEPT ![t] = @ + 1] /\ UNCHANGED tpc
    /\ UNCHANGED <<tleft, tdoc, ttree, thist, memo>>
    /\ UNCHANGED pipeOthers

\* lines 851-857: publish_doctree(doc, halt_level 3); a role of the text that
\* the registry does not hold is docutils' error 'Unknown interpreted text
\* role', a SystemMessage
PublishDoctree(t) ==
    /\ tpc[t] = "publish"
    /\ ttree' = [ttree EXCEPT ![t] =
                   IF tdoc[t].role = "" \/ tdoc[t].role \in roleMap
                   THEN "tree" ELSE "SystemMessage"]
    /\ tpc' = [tpc EXCEPT ![t] = "unregister"]
    /\ UNCHANGED <<tleft, tdoc, ti, thist, roleMap, memo>>
    /\ UNCHANGED pipeOthers

\* a pop that leaves the name registered
role_map_keep(role_map, name) == role_map

\* line 829: role_map.pop(name)
role_map_pop(role_map, name) == role_map \ {name}

\* lines 826-829: role_map.pop(name) for the next name, a KeyError when the
\* registry does not hold it; after the last one the exception of
\* publish_doctree goes on
PopRole(t) ==
    /\ tpc[t] = "unregister"
    /\ IF RoleNames[ti[t]] \notin roleMap
       THEN /\ thist' = [thist EXCEPT ![t] =
                           Append(@, Served(tdoc[t], FALSE,
                                            Failure("KeyError", "", RoleNames[ti[t]])))]
            /\ tpc' = [tpc EXCEPT ![t] = "idle"]
            /\ ti' = [ti EXCEPT ![t] = 1]
            /\ UNCHANGED roleMap
       ELSE /\ roleMap' = role_map_pop(roleMap, RoleNames[ti[t]])
            /\ IF ti[t] < Len(RoleNames)
               THEN ti' = [ti EXCEPT ![t] = @ + 1] /\ UNCHANGED <<tpc, thist>>
               ELSE /\ ti' = [ti EXCEPT ![t] = 1]
                    /\ IF ttree[t] = "tree"
                       THEN tpc' = [tpc EXCEPT ![t] = "visit"] /\ UNCHANGED thist
                       ELSE /\ tpc' = [tpc EXCEPT ![t] = "idle"]
                            /\ thist' = [thist EXCEPT ![t] =
                                 Append(@, Served(tdoc[t], FALSE,
                                     Failure("SystemMessage",
                                             "Unknown interpreted text role",
                                             tdoc[t].role)))]
    /\ UNCHANGED <<tleft, tdoc, ttree, memo>>
    /\ UNCHANGED pipeOthers

\* lines 859-1044: the visitor walks the tree and the Signature is returned,
\* which lru_cache keeps; an exception is not kept
VisitDoctree(t) ==
    /\ tpc[t] = "visit"
    /\ LET r == _parse_docstring(tdoc[t].fields, tdoc[t].text)
       IN  /\ thist' = [thist EXCEPT ![t] = Append(@, Served(tdoc[t], FALSE, r))]
           /\ memo' = IF r.err = NoErr THEN memo \cup {<<tdoc[t], r>>} ELSE memo
    /\ tpc' = [tpc EXCEPT ![t] = "idle"]
    /\ UNCHANGED <<tleft, tdoc, ti, ttree, roleMap>>
    /\ UNCHANGED pipeOthers

\* signature.cache_clear()
CacheClear ==
    /\ memo # {}
    /\ memo' = {}
    /\ UNCHANGED <<tpc, tleft, tdoc, ti, ttree, thist, roleMap>>
    /\ UNCHANGED pipeOthers

PipeNext ==
    \/ \E t \in Threads, d \in PipeDocs : SignatureCall(t, d)
    \/ \E t \in Threads : RegisterRole(t)
    \/ \E t \in Threads : PublishDoctree(t)
    \/ \E t \in Threads : PopRole(t)
    \/ \E t \in Threads : VisitDoctree(t)
    \/ CacheClear

\* ---- one thread, a registry that may hold a role of the application, and
\* ---- a docstring whose text uses a role that nothing registers
UnknownRoleDoc ==
    PipeDoc(<<"See nosuch.">>, <<Field(2, "param", "", <<"a">>, "t")>>, "nosuch")

RoleDocs == PipeDocs \cup {UnknownRoleDoc}

RolesInit ==
    /\ tpc = [t \in Threads |-> IF t = 1 THEN "idle" ELSE "off"]
    /\ tleft = [t \in Threads |-> IF t = 1 THEN MaxCalls ELSE 0]
    /\ tdoc = [t \in Threads |-> PlainDoc]
    /\ ti = [t \in Threads |-> 1]
    /\ ttree = [t \in Threads |-> ""]
    /\ thist = [t \in Threads |-> <<>>]
    /\ roleMap \in {{}, {"custom"}}
    /\ memo = {}

RolesNext ==
    \/ \E t \in Threads, d \in RoleDocs : SignatureCall(t, d)
    \/ \E t \in Threads : RegisterRole(t)
    \/ \E t \in Threads : PublishDoctree(t)
    \/ \E t \in Threads : PopRole(t)
    \/ \E t \in Threads : VisitDoctree(t)
    \/ CacheClear

(***************************************************************************)
(* Properties of the memoized entry point.                                 *)
(***************************************************************************)
\* the pass-through names in the registry
PassThrough == roleMap \cap Range(RoleNames)

\* the thread is not inside the with block of _sphinx_common_roles
OutsideWith == tpc[1] \in {"idle", "off", "visit"}

\* outside the with block the registry holds no pass-through name, during
\* publish_doctree it holds them all, and no pop raised KeyError
RegisteredWhileParsing ==
    /\ OutsideWith => PassThrough = {}
    /\ tpc[1] = "publish" => PassThrough = Range(RoleNames)
    /\ \A i \in 1..Len(thist[1]) : thist[1][i].res.err.exc # "KeyError"

\* no step adds or removes another name
OtherRolesKept ==
    roleMap' \ Range(RoleNames) = roleMap \ Range(RoleNames)

\* C29: each parse registers the pass-through roles on entry and removes
\* them, and nothing else, on exit, also when publish_doctree raises; after
\* any sequence of parses that returned or raised, the registry holds none
\* of them and the next parse registers and removes them without error
C29_RolesRegisteredAndRemoved ==
    [](RegisteredWhileParsing) /\ [][OtherRolesKept]_vars

\* a parse that raised in publish_doctree, then a parse that uses a
\* pass-through role and returns: the registry is as it was before both
C29_Witness ==
    /\ tpc[1] = "idle"
    /\ Len(thist[1]) = 2
    /\ thist[1][1].doc = UnknownRoleDoc
    /\ thist[1][1].res.err.exc = "SystemMessage"
    /\ thist[1][2].doc = FuncDoc
    /\ thist[1][2].res.err = NoErr
    /\ roleMap = {"custom"}

\* a parse that raised in the visitor, after the with block
C29_WitnessVisitorRaised ==
    /\ tpc[1] = "idle"
    /\ Len(thist[1]) = 1
    /\ thist[1][1].doc = TwiceDoc
    /\ thist[1][1].res.err.exc = "ValueError"
    /\ roleMap = {}

C17_WitnessRecomputed ==
    /\ Len(thist[1]) = 2
    /\ thist[1][1].doc = FuncDoc /\ ~thist[1][1].hit
    /\ thist[1][2].doc = FuncDoc /\ ~thist[1][2].hit
    /\ thist[1][1].res.err = NoErr

\* the docstrings a thread has called signature with, the present one too
DocsOf(t) ==
    {thist[t][i].doc : i \in 1..Len(thist[t])}
    \cup (IF tpc[t] \in {"idle", "off"} THEN {} ELSE {tdoc[t]})

\* C18 (as stated): two threads that call signature on different docstrings
\* each get what they would get alone, and neither fails because of the
\* other, in every interleaving.
C18_EachAsAlone ==
    (DocsOf(1) \cap DocsOf(2) = {}) =>
        \A t \in Threads : \A i \in 1..Len(thist[t]) :
            thist[t][i].res = _parse_docstring(thist[t][i].doc.fields,
                                               thist[t][i].doc.text)

\* a thread's pop finds the registry emptied by the other thread
C18_KeyErrorReached ==
    /\ DocsOf(1) \cap DocsOf(2) = {}
    /\ \E t \in Threads : \E i \in 1..Len(thist[t]) :
          thist[t][i].res.err.exc = "KeyError"

\* a thread's publish_doctree runs after the other thread removed the roles
C18_UnknownRoleReached ==
    /\ DocsOf(1) \cap DocsOf(2) = {}
    /\ \E t \in Threads : \E i \in 1..Len(thist[t]) :
          thist[t][i].res.err.exc = "SystemMessage"

(***************************************************************************)
(* The visitor's walk over the blocks of a doctree and the reconstruction  *)
(* of the description: paragraphs, literal blocks, comments, bullet lists  *)
(* and enumerated lists, the enumerators the visitor generates for a list, *)
(* the indentation of the items' text, and the text joined at the end of   *)
(* _parse_docstring.  Text is kept as real strings, a paragraph as the     *)
(* sequence of its lines.                                                  *)
(***************************************************************************)
\* the most top-level blocks of a doctree built from the basic blocks
MaxBlocks == 2

\* the most items of an enumerated list
MaxListLen == 3

\* the largest start value of an enumerated list
MaxStart == 9

\* the most blank lines between two blocks of the source
MaxBlank == 2

DigitChars == <<"0", "1", "2", "3", "4", "5", "6", "7", "8", "9">>

LowerLetters ==
    <<"a", "b", "c", "d", "e", "f", "g", "h", "i", "j", "k", "l", "m",
      "n", "o", "p", "q", "r", "s", "t", "u", "v", "w", "x", "y", "z">>

UpperLetters ==
    <<"A", "B", "C", "D", "E", "F", "G", "H", "I", "J", "K", "L", "M",
      "N", "O", "P", "Q", "R", "S", "T", "U", "V", "W", "X", "Y", "Z">>

\* s * n (the empty string when n <= 0)
RECURSIVE Times(_, _)
Times(s, n) == IF n <= 0 THEN "" ELSE s \o Times(s, n - 1)

\* str(n) for n >= 0
RECURSIVE str(_)
str(n) ==
    IF n < 10 THEN DigitChars[n + 1]
    ELSE str(n \div 10) \o DigitChars[(n % 10) + 1]

\* str.lower and str.upper, on the characters of a string
lower(cs) ==
    [i \in DOMAIN cs |->
        IF \E k \in 1..26 : UpperLetters[k] = cs[i]
        THEN LowerLetters[CHOOSE k \in 1..26 : UpperLetters[k] = cs[i]]
        ELSE cs[i]]

upper(cs) ==
    [i \in DOMAIN cs |->
        IF \E k \in 1..26 : LowerLetters[k] = cs[i]
        THEN UpperLetters[CHOOSE k \in 1..26 : LowerLetters[k] = cs[i]]
        ELSE cs[i]]

\* roman.toRoman: the numerals taken greedily from the largest down
romanNumeralMap ==
    << <<1000, <<"M">> >>, <<900, <<"C", "M">> >>, <<500, <<"D">> >>,
       <<400, <<"C", "D">> >>, <<100, <<"C">> >>, <<90, <<"X", "C">> >>,
       <<50, <<"L">> >>, <<40, <<"X", "L">> >>, <<10, <<"X">> >>,
       <<9, <<"I", "X">> >>, <<5, <<"V">> >>, <<4, <<"I", "V">> >>,
       <<1, <<"I">> >> >>

RECURSIVE toRomanFrom(_, _)
toRomanFrom(n, k) ==
    IF k > Len(romanNumeralMap) THEN <<>>
    ELSE IF n >= romanNumeralMap[k][1]
         THEN romanNumeralMap[k][2] \o toRomanFrom(n - romanNumeralMap[k][1], k)
         ELSE toRomanFrom(n, k + 1)

toRoman(n) == toRomanFrom(n, 1)

Sequences_ == {"arabic", "loweralpha", "upperalpha", "lowerroman", "upperroman"}

Formats == {"parens", "rparen", "period"}

\* Body.enum.formatinfo: the prefix and the suffix of a format
FormatInfo(format) ==
    CASE format = "parens" -> [prefix |-> "(", suffix |-> ")"]
      [] format = "rparen" -> [prefix |-> "", suffix |-> ")"]
      [] format = "period" -> [prefix |-> "", suffix |-> "."]

\* the dict of visit_enumerated_list, from (prefix, suffix) to the format
FormatOf(prefix, suffix) ==
    CHOOSE f \in Formats :
        FormatInfo(f).prefix = prefix /\ FormatInfo(f).suffix = suffix

\* Body(None).make_enumerator(ordinal, sequence, format)[0]: the enumerator
\* of the item, a space after it
make_enumerator(ordinal, sequence, format) ==
    LET enumerator ==
            CASE sequence = "arabic" -> <<str(ordinal)>>
              [] sequence = "loweralpha" -> lower(<<LowerLetters[ordinal]>>)
              [] sequence = "upperalpha" -> upper(<<LowerLetters[ordinal]>>)
              [] sequence = "lowerroman" -> lower(toRoman(ordinal))
              [] sequence = "upperroman" -> upper(toRoman(ordinal))
    IN  FormatInfo(format).prefix \o Concat(enumerator)
            \o FormatInfo(format).suffix \o " "

\* max(map(len, enumerators))
RECURSIVE MaxLen(_)
MaxLen(strings) ==
    IF strings = <<>> THEN 0
    ELSE LET rest == MaxLen(Tail(strings))
         IN  IF Len(strings[1]) > rest THEN Len(strings[1]) ELSE rest

\* an enumerator left as it is
ljustNot(s, width) == s

\* str.ljust(width)
ljust(s, width) == s \o Spaces(width - Len(s))

\* visit_enumerated_list: the enumerators of the list's items
Enumerators(node) ==
    LET fmt == FormatOf(node.prefix, node.suffix)
        start == node.start
        enumerators == [k \in 1..Len(node.items) |->
                           make_enumerator(start + k - 1, node.enumtype, fmt)]
        width == MaxLen(enumerators)
    IN  [k \in 1..Len(enumerators) |-> ljust(enumerators[k], width)]

\* visit_bullet_list: the bullet and a space, for each item
Bullets(node) == [k \in 1..Len(node.items) |-> node.bullet \o " "]

\* ---- the doctree
\* a block: its kind, node.line, the lines of its text, and for a list its
\* items (each a paragraph: line, lines) and attributes
Block(kind, line, lines, items, enumtype, prefix, suffix, start, bullet) ==
    [kind |-> kind, line |-> line, lines |-> lines, items |-> items,
     enumtype |-> enumtype, prefix |-> prefix, suffix |-> suffix,
     start |-> start, bullet |-> bullet]

ParagraphNode(lines) == Block("paragraph", 0, lines, <<>>, "", "", "", 0, "")

CommentNode(lines) == Block("comment", 0, lines, <<>>, "", "", "", 0, "")

LiteralBlock(lines) == Block("literal_block", 0, lines, <<>>, "", "", "", 0, "")

ListItem(lines) == [line |-> 0, lines |-> lines]

\* a doctest block and a rubric hold their text as a paragraph does
DoctestBlock(lines) == Block("doctest_block", 0, lines, <<>>, "", "", "", 0, "")

RubricNode(lines) == Block("rubric", 0, lines, <<>>, "", "", "", 0, "")

\* a block quote holds blocks: here paragraphs and literal blocks
QuoteChild(kind, lines) == [line |-> 0, lines |-> lines, kind |-> kind]

BlockQuote(children) ==
    Block("block_quote", 0, <<>>, children, "", "", "", 0, "")

BulletList(bullet, items) ==
    Block("bullet_list", 0, <<>>, items, "", "", "", 0, bullet)

EnumeratedList(enumtype, format, start, items) ==
    Block("enumerated_list", 0, <<>>, items, enumtype,
          FormatInfo(format).prefix, FormatInfo(format).suffix, start, "")

\* the lines of the source a block takes
RECURSIVE ItemsHeight(_)
ItemsHeight(items) ==
    IF items = <<>> THEN 0
    ELSE Len(items[1].lines) + ItemsHeight(Tail(items))

Height(b) ==
    IF b.kind \in {"bullet_list", "enumerated_list", "block_quote"}
    THEN ItemsHeight(b.items)
    ELSE Len(b.lines)

\* the block, its line numbers set for a source where it starts at line at:
\* a paragraph, a literal block and a list item report their first line, a
\* comment the line after its last
Place(b, at) ==
    [b EXCEPT !.line = IF b.kind = "comment" THEN at + Len(b.lines) ELSE at,
              !.items = [k \in 1..Len(b.items) |->
                            [b.items[k] EXCEPT
                                !.line = at + ItemsHeight(SubSeq(b.items, 1, k - 1))]]]

\* the doctree of a source with these blocks, blanks[k] blank lines after
\* the k-th
RECURSIVE LayOut(_, _, _)
LayOut(blocks, blanks, at) ==
    IF blocks = <<>> THEN <<>>
    ELSE <<Place(blocks[1], at)>>
             \o LayOut(Tail(blocks), Tail(blanks),
                       at + Height(blocks[1]) + blanks[1])

\* the docstring of test_newlines
TestBlocks ==
    <<ParagraphNode(<<"Bar", "Baz">>),
      CommentNode(<<"a comment">>),
      BulletList("-", <<ListItem(<<"bar">>), ListItem(<<"baz">>)>>),
      ParagraphNode(<<"quux:">>),
      LiteralBlock(<<"hello">>),
      EnumeratedList("arabic", "period", 1,
                     <<ListItem(<<"bar">>), ListItem(<<"baz">>)>>),
      EnumeratedList("lowerroman", "period", 2,
                     <<ListItem(<<"bar">>), ListItem(<<"baz">>)>>)>>

TestTree == LayOut(TestBlocks, <<1, 1, 1, 1, 2, 1, 0>>, 1)

BasicBlocks ==
    {ParagraphNode(<<"Bar">>), ParagraphNode(<<"Bar", "Baz">>),
     CommentNode(<<"a comment">>), CommentNode(<<"a", "comment">>),
     LiteralBlock(<<"def foo():", "    pass">>),
     BulletList("*", <<ListItem(<<"bar">>), ListItem(<<"baz", "more">>)>>),
     EnumeratedList("arabic", "rparen", 9,
                    <<ListItem(<<"bar", "more">>), ListItem(<<"baz">>)>>)}

ItemTexts == <<ListItem(<<"x">>), ListItem(<<"y", "z">>), ListItem(<<"w">>),
               ListItem(<<"v">>), ListItem(<<"u">>)>>

\* every enumerated list of up to MaxListLen items
EnumeratedLists ==
    {EnumeratedList(e, f, s, SubSeq(ItemTexts, 1, n)) :
        e \in Sequences_, f \in Formats, s \in 1..MaxStart, n \in 1..MaxListLen}

Trees ==
    {TestTree}
    \cup {LayOut(<<e>>, <<0>>, 1) : e \in EnumeratedLists}
    \cup UNION {{LayOut(bs, [k \in 1..n |-> blank], 1) :
                    bs \in [1..n -> BasicBlocks], blank \in 1..MaxBlank} :
                n \in 1..MaxBlocks}

\* ---- the visitor
comment_token == [comment |-> TRUE, lines |-> <<>>]

TextBlock(lines) == [comment |-> FALSE, lines |-> lines]

\* _current_paragraph: None, or the list of the Text nodes appended so far
NoParagraph == [open |-> FALSE, nodes |-> <<>>]

\* ''.join(self._current_paragraph), as the lines of the joined text
RECURSIVE JoinNodes(_)
JoinNodes(nodes) ==
    IF nodes = <<>> THEN <<"">>
    ELSE LET rest == JoinNodes(Tail(nodes))
             n == nodes[1]
         IN  SubSeq(n, 1, Len(n) - 1) \o <<n[Len(n)] \o rest[1]>> \o Tail(rest)

\* depart_paragraph: the text behind the indents, its further lines behind
\* as many spaces
Indented(lines, indent_stack) ==
    LET first == Concat(indent_stack)
        blank == Concat([k \in 1..Len(indent_stack) |-> Spaces(Len(indent_stack[k]))])
    IN  [k \in 1..Len(lines) |->
            IF k = 1 THEN first \o lines[1] ELSE blank \o lines[k]]

\* the characters of the rubrics of the model
RubricChars(t) ==
    CASE t = "Examples" -> <<"E", "x", "a", "m", "p", "l", "e", "s">>
      [] t = "examples" -> <<"e", "x", "a", "m", "p", "l", "e", "s">>
      [] t = "see Also" -> <<"s", "e", "e", " ", "A", "l", "s", "o">>

IsLetter(c) == \E k \in 1..26 : c \in {LowerLetters[k], UpperLetters[k]}

\* str.title(): a letter after a letter in lower case, another in upper case
title(cs) ==
    [i \in DOMAIN cs |->
        IF i > 1 /\ IsLetter(cs[i - 1]) THEN lower(<<cs[i]>>)[1]
        ELSE upper(<<cs[i]>>)[1]]

\* depart_rubric, lines 935-937: (t.lower() if t == t.title() else t) + ':'
\* for each Text of the rubric
RubricText(node) ==
    [k \in 1..Len(node) |->
        (IF title(RubricChars(node[k])) = RubricChars(node[k])
         THEN Concat(lower(RubricChars(node[k]))) ELSE node[k]) \o ":"]

\* the node the walk is at: a top-level block, or the paragraph of an item
AtBlock == wph = "walk" /\ wi <= Len(wtree)

\* the walk is at a block of a block quote
AtQuoted ==
    /\ wph = "quote"
    /\ wk <= Len(wtree[wi].items)

Node == IF wk = 0 THEN wtree[wi] ELSE wtree[wi].items[wk]

\* the kind of the node the walk is at
NodeKind ==
    IF wk = 0 THEN wtree[wi].kind
    ELSE IF wtree[wi].kind = "block_quote" THEN wtree[wi].items[wk].kind
    ELSE "paragraph"

WalkIdle ==
    /\ wtree = <<>>
    /\ wi = 0
    /\ wk = 0
    /\ wph = "off"
    /\ wcur = NoParagraph
    /\ wparas = <<>>
    /\ wstarts = <<>>
    /\ wits = <<>>
    /\ wind = <<>>
    /\ wtext = <<>>
    /\ wdoc = ""

\* Visitor(tree), before tree.walkabout(visitor)
WalkInit ==
    /\ wtree \in Trees
    /\ wi = 1
    /\ wk = 0
    /\ wph = "walk"
    /\ wcur = NoParagraph
    /\ wparas = <<>>
    /\ wstarts = <<>>
    /\ wits = <<>>
    /\ wind = <<>>
    /\ wtext = <<>>
    /\ wdoc = ""

visit_paragraph ==
    /\ \/ AtBlock /\ wtree[wi].kind = "paragraph"
       \/ wph = "item"
       \/ AtQuoted /\ wtree[wi].items[wk].kind = "paragraph"
    /\ wstarts' = Append(wstarts, Node.line)
    /\ wcur' = [open |-> TRUE, nodes |-> <<>>]
    /\ wph' = "para"
    /\ UNCHANGED <<wtree, wi, wk, wparas, wits, wind, wtext, wdoc>>
    /\ UNCHANGED walkOthers

\* lines 898-899; None has no append
visit_Text ==
    /\ wph = "para"
    /\ IF wcur.open
       THEN /\ wcur' = [wcur EXCEPT !.nodes = Append(@, Node.lines)]
            /\ wph' = "text"
       ELSE /\ wcur' = wcur
            /\ wph' = "AttributeError"
    /\ UNCHANGED <<wtree, wi, wk, wparas, wstarts, wits, wind, wtext, wdoc>>
    /\ UNCHANGED walkOthers

depart_paragraph ==
    /\ wph = "text"
    /\ NodeKind = "paragraph"
    /\ wparas' = Append(wparas, TextBlock(Indented(JoinNodes(wcur.nodes), wind)))
    /\ wind' = [k \in 1..Len(wind) |-> Spaces(Len(wind[k]))]
    /\ wcur' = NoParagraph
    /\ IF wk = 0
       THEN wph' = "walk" /\ wi' = wi + 1 /\ wk' = wk
       ELSE IF wtree[wi].kind = "block_quote"
       THEN wph' = "quote" /\ wi' = wi /\ wk' = wk + 1
       ELSE wph' = "item_done" /\ wi' = wi /\ wk' = wk
    /\ UNCHANGED <<wtree, wstarts, wits, wtext, wdoc>>
    /\ UNCHANGED walkOthers

\* lines 895-896: visit_doctest_block = visit_paragraph
visit_doctest_block ==
    /\ AtBlock
    /\ wtree[wi].kind = "doctest_block"
    /\ wstarts' = Append(wstarts, Node.line)
    /\ wcur' = [open |-> TRUE, nodes |-> <<>>]
    /\ wph' = "para"
    /\ UNCHANGED <<wtree, wi, wk, wparas, wits, wind, wtext, wdoc>>
    /\ UNCHANGED walkOthers

\* depart_doctest_block = depart_paragraph
depart_doctest_block ==
    /\ wph = "text"
    /\ NodeKind = "doctest_block"
    /\ wparas' = Append(wparas, TextBlock(Indented(JoinNodes(wcur.nodes), wind)))
    /\ wind' = [k \in 1..Len(wind) |-> Spaces(Len(wind[k]))]
    /\ wcur' = NoParagraph
    /\ wph' = "walk"
    /\ wi' = wi + 1
    /\ UNCHANGED <<wtree, wk, wstarts, wits, wtext, wdoc>>
    /\ UNCHANGED walkOthers

\* lines 930-931: self.visit_paragraph(node)
visit_rubric ==
    /\ AtBlock
    /\ wtree[wi].kind = "rubric"
    /\ wstarts' = Append(wstarts, Node.line)
    /\ wcur' = [open |-> TRUE, nodes |-> <<>>]
    /\ wph' = "para"
    /\ UNCHANGED <<wtree, wi, wk, wparas, wits, wind, wtext, wdoc>>
    /\ UNCHANGED walkOthers

\* lines 933-938: the texts restyled, then self.depart_paragraph(node)
depart_rubric ==
    /\ wph = "text"
    /\ NodeKind = "rubric"
    /\ wparas' = Append(wparas,
                        TextBlock(Indented(JoinNodes([k \in 1..Len(wcur.nodes) |->
                                                        RubricText(wcur.nodes[k])]),
                                           wind)))
    /\ wind' = [k \in 1..Len(wind) |-> Spaces(Len(wind[k]))]
    /\ wcur' = NoParagraph
    /\ wph' = "walk"
    /\ wi' = wi + 1
    /\ UNCHANGED <<wtree, wk, wstarts, wits, wtext, wdoc>>
    /\ UNCHANGED walkOthers

\* lines 895-896: visit_block_quote = visit_paragraph; the walk goes on with
\* the blocks of the quote
visit_block_quote ==
    /\ AtBlock
    /\ wtree[wi].kind = "block_quote"
    /\ wstarts' = Append(wstarts, Node.line)
    /\ wcur' = [open |-> TRUE, nodes |-> <<>>]
    /\ wk' = 1
    /\ wph' = "quote"
    /\ UNCHANGED <<wtree, wi, wparas, wits, wind, wtext, wdoc>>
    /\ UNCHANGED walkOthers

\* depart_block_quote = depart_paragraph, after the blocks of the quote:
\* ''.join(self._current_paragraph) is a TypeError when it is None
depart_block_quote ==
    /\ wph = "quote"
    /\ wk > Len(wtree[wi].items)
    /\ IF wcur.open
       THEN /\ wparas' = Append(wparas,
                                TextBlock(Indented(JoinNodes(wcur.nodes), wind)))
            /\ wind' = [k \in 1..Len(wind) |-> Spaces(Len(wind[k]))]
            /\ wcur' = NoParagraph
            /\ wph' = "walk"
            /\ wi' = wi + 1
            /\ wk' = 0
       ELSE /\ wph' = "TypeError"
            /\ UNCHANGED <<wparas, wind, wcur, wi, wk>>
    /\ UNCHANGED <<wtree, wstarts, wits, wtext, wdoc>>
    /\ UNCHANGED walkOthers

visit_literal_block ==
    /\ \/ AtBlock /\ wtree[wi].kind = "literal_block"
       \/ AtQuoted /\ wtree[wi].items[wk].kind = "literal_block"
    /\ wstarts' = Append(wstarts, Node.line)
    /\ wparas' = Append(wparas,
                        TextBlock([k \in 1..Len(Node.lines) |->
                                      "    " \o Node.lines[k]]))
    /\ IF wk = 0 THEN wi' = wi + 1 /\ wk' = wk
       ELSE wi' = wi /\ wk' = wk + 1
    /\ UNCHANGED <<wtree, wph, wcur, wits, wind, wtext, wdoc>>
    /\ UNCHANGED walkOthers

visit_comment ==
    /\ AtBlock
    /\ wtree[wi].kind = "comment"
    /\ wparas' = Append(wparas, comment_token)
    /\ wstarts' = Append(wstarts,
                         wtree[wi].line - (Len(wtree[wi].lines) - 1) - 1)
    /\ wi' = wi + 1
    /\ UNCHANGED <<wtree, wk, wph, wcur, wits, wind, wtext, wdoc>>
    /\ UNCHANGED walkOthers

visit_bullet_list ==
    /\ AtBlock
    /\ wtree[wi].kind = "bullet_list"
    /\ wits' = Append(wits, Bullets(wtree[wi]))
    /\ wk' = 1
    /\ wph' = "list"
    /\ UNCHANGED <<wtree, wi, wcur, wparas, wstarts, wind, wtext, wdoc>>
    /\ UNCHANGED walkOthers

visit_enumerated_list ==
    /\ AtBlock
    /\ wtree[wi].kind = "enumerated_list"
    /\ wits' = Append(wits, Enumerators(wtree[wi]))
    /\ wk' = 1
    /\ wph' = "list"
    /\ UNCHANGED <<wtree, wi, wcur, wparas, wstarts, wind, wtext, wdoc>>
    /\ UNCHANGED walkOthers

visit_list_item ==
    /\ wph = "list"
    /\ wk <= Len(wtree[wi].items)
    /\ wind' = Append(wind, Head(wits[Len(wits)]))
    /\ wits' = [wits EXCEPT ![Len(wits)] = Tail(@)]
    /\ wph' = "item"
    /\ UNCHANGED <<wtree, wi, wk, wcur, wparas, wstarts, wtext, wdoc>>
    /\ UNCHANGED walkOthers

depart_list_item ==
    /\ wph = "item_done"
    /\ wind' = SubSeq(wind, 1, Len(wind) - 1)
    /\ wk' = wk + 1
    /\ wph' = "list"
    /\ UNCHANGED <<wtree, wi, wcur, wparas, wstarts, wits, wtext, wdoc>>
    /\ UNCHANGED walkOthers

\* the end of a list: _indent_iterator_stack.pop()
depart_bullet_list ==
    /\ wph = "list"
    /\ wk > Len(wtree[wi].items)
    /\ wtree[wi].kind = "bullet_list"
    /\ wits' = SubSeq(wits, 1, Len(wits) - 1)
    /\ wk' = 0
    /\ wi' = wi + 1
    /\ wph' = "walk"
    /\ UNCHANGED <<wtree, wcur, wparas, wstarts, wind, wtext, wdoc>>
    /\ UNCHANGED walkOthers

depart_enumerated_list ==
    /\ wph = "list"
    /\ wk > Len(wtree[wi].items)
    /\ wtree[wi].kind = "enumerated_list"
    /\ wits' = SubSeq(wits, 1, Len(wits) - 1)
    /\ wk' = 0
    /\ wi' = wi + 1
    /\ wph' = "walk"
    /\ UNCHANGED <<wtree, wcur, wparas, wstarts, wind, wtext, wdoc>>
    /\ UNCHANGED walkOthers

\* a paragraph's lines as one string, '\n' between them
RECURSIVE JoinLines(_)
JoinLines(lines) ==
    IF lines = <<>> THEN ""
    ELSE IF Len(lines) = 1 THEN lines[1]
    ELSE lines[1] \o "\n" \o JoinLines(Tail(lines))

\* the gap sized from the blocks' lines: ' \n' * (next_start - start -
\* paragraph.count('\n'))
GapByLines(start, paragraph, next_start) ==
    Times(" \n", next_start - start - (Len(paragraph.lines) - 1))

\* text.append('\n\n')
Gap(start, paragraph, next_start) == "\n\n"

\* the loop over zip(start_lines, paragraphs, start_lines[1:] + [0])
RECURSIVE TextPieces(_, _, _)
TextPieces(start_lines, paragraphs, k) ==
    IF k > Len(paragraphs) \/ k > Len(start_lines) THEN <<>>
    ELSE LET next_start == IF k < Len(start_lines) THEN start_lines[k + 1] ELSE 0
             rest == TextPieces(start_lines, paragraphs, k + 1)
         IN  IF paragraphs[k] = comment_token THEN rest
             ELSE <<JoinLines(paragraphs[k].lines),
                    Gap(start_lines[k], paragraphs[k], next_start)>> \o rest

\* after the walk: Signature(params, doc=''.join(text), ..)
JoinText ==
    /\ wph = "walk"
    /\ wi > Len(wtree)
    /\ wtext' = (IF wparas = <<>> THEN <<>> ELSE TextPieces(wstarts, wparas, 1))
    /\ wdoc' = Concat(wtext')
    /\ wph' = "joined"
    /\ UNCHANGED <<wtree, wi, wk, wcur, wparas, wstarts, wits, wind>>
    /\ UNCHANGED walkOthers

WalkNext ==
    \/ visit_paragraph
    \/ visit_Text
    \/ depart_paragraph
    \/ visit_literal_block
    \/ visit_comment
    \/ visit_bullet_list
    \/ visit_enumerated_list
    \/ visit_list_item
    \/ depart_list_item
    \/ depart_bullet_list
    \/ depart_enumerated_list
    \/ JoinText

\* ---- the walk over doctrees that also have doctest blocks, rubrics and
\* ---- block quotes
QuoteBlocks ==
    BasicBlocks
    \cup {DoctestBlock(<<">>> 1">>),
          RubricNode(<<"Examples">>), RubricNode(<<"examples">>),
          RubricNode(<<"see Also">>),
          BlockQuote(<<QuoteChild("paragraph", <<"Quoted.">>)>>),
          BlockQuote(<<QuoteChild("literal_block", <<"code">>)>>),
          BlockQuote(<<QuoteChild("literal_block", <<"code">>),
                       QuoteChild("paragraph", <<"Quoted.", "More.">>)>>)}

QuoteTrees ==
    UNION {{LayOut(bs, [k \in 1..n |-> blank], 1) :
               bs \in [1..n -> QuoteBlocks], blank \in 1..MaxBlank} :
           n \in 1..MaxBlocks}

QuoteInit ==
    /\ wtree \in QuoteTrees
    /\ wi = 1
    /\ wk = 0
    /\ wph = "walk"
    /\ wcur = NoParagraph
    /\ wparas = <<>>
    /\ wstarts = <<>>
    /\ wits = <<>>
    /\ wind = <<>>
    /\ wtext = <<>>
    /\ wdoc = ""

QuoteNext ==
    \/ WalkNext
    \/ visit_doctest_block
    \/ depart_doctest_block
    \/ visit_rubric
    \/ depart_rubric
    \/ visit_block_quote
    \/ depart_block_quote

\* ---- properties of the paragraph buffer
\* the walk went through the whole tree
WalkEnded == wph = "joined" \/ (wph = "walk" /\ wi > Len(wtree))

\* some block quote of the tree holds a paragraph
QuotesParagraph ==
    \E i \in 1..Len(wtree) :
        /\ wtree[i].kind = "block_quote"
        /\ \E k \in 1..Len(wtree[i].items) : wtree[i].items[k].kind = "paragraph"

C28_TextInBufferAndPairedAtEnd ==
    /\ wph # "AttributeError"
    /\ WalkEnded => Len(wstarts) = Len(wparas)
    /\ ~QuotesParagraph => wph # "TypeError"

\* a paragraph, then a block quote of one paragraph: depart_block_quote
\* finds None, three start_lines for two paragraphs
C28_QuotedParagraphRaises ==
    /\ wph = "TypeError"
    /\ wtree = LayOut(<<ParagraphNode(<<"Bar">>),
                        BlockQuote(<<QuoteChild("paragraph", <<"Quoted.">>)>>)>>,
                      <<1, 1>>, 1)
    /\ wcur = NoParagraph
    /\ Len(wstarts) = 3
    /\ Len(wparas) = 2

\* a rubric and a doctest block are rendered as paragraphs
C28_RubricRendered ==
    /\ WalkEnded
    /\ wtree = LayOut(<<RubricNode(<<"Examples">>), DoctestBlock(<<">>> 1">>)>>,
                      <<1, 1>>, 1)
    /\ wparas = <<TextBlock(<<"examples:">>), TextBlock(<<">>> 1">>)>>
    /\ wstarts = <<1, 3>>

\* a block quote of a literal block only: the quote's own buffer is joined
C28_QuotedLiteralRendered ==
    /\ WalkEnded
    /\ wtree = LayOut(<<BlockQuote(<<QuoteChild("literal_block", <<"code">>)>>)>>,
                      <<1>>, 1)
    /\ wparas = <<TextBlock(<<"    code">>), TextBlock(<<"">>)>>
    /\ wstarts = <<1, 1>>

\* ---- properties of the enumerators
\* the roman numerals of 1..14, written out
RomanTable ==
    <<"i", "ii", "iii", "iv", "v", "vi", "vii", "viii", "ix", "x", "xi",
      "xii", "xiii", "xiv">>

UpperRomanTable ==
    <<"I", "II", "III", "IV", "V", "VI", "VII", "VIII", "IX", "X", "XI",
      "XII", "XIII", "XIV">>

\* the n-th numeral of a numbering system
Numeral(system, n) ==
    CASE system = "arabic" ->
            IF n < 10 THEN DigitChars[n + 1]
            ELSE DigitChars[(n \div 10) + 1] \o DigitChars[(n % 10) + 1]
      [] system = "loweralpha" -> LowerLetters[n]
      [] system = "upperalpha" -> UpperLetters[n]
      [] system = "lowerroman" -> RomanTable[n]
      [] system = "upperroman" -> UpperRomanTable[n]

\* the enumerator of the k-th item of a list as written in a source: the
\* numeral in the list's brackets
Enumerator(node, k) ==
    node.prefix \o Numeral(node.enumtype, node.start + k - 1) \o node.suffix

\* the walk is inside an enumerated list
InEnumeratedList ==
    /\ wph \in {"list", "item", "para", "text", "item_done"}
    /\ wtree[wi].kind = "enumerated_list"

\* the enumerators visit_enumerated_list has just put on the stack
JustEnumerated == InEnumeratedList /\ wph = "list" /\ wk = 1

\* every item of the list has been rendered
AllItemsRendered == InEnumeratedList /\ wph = "list" /\ wk > Len(wtree[wi].items)

\* the paragraph rendered for the k-th item of the list the walk is in
ItemParagraph(k) == wparas[Len(wparas) - Len(wtree[wi].items) + k].lines

\* C19: the enumerators of an enumerated list are the numerals start,
\* start + 1, .. of the list's numbering system in the list's brackets, each
\* padded on the right with spaces to the width of the widest, so that the
\* text of every item (and of its further lines) starts in the same column
C19_EnumeratorsPaddedToWidest ==
    /\ JustEnumerated =>
         LET node == wtree[wi]
             es == wits[Len(wits)]
         IN  /\ Len(es) = Len(node.items)
             /\ \A k \in 1..Len(es) :
                  /\ \E pad \in 0..Len(es[k]) :
                        es[k] = Enumerator(node, k) \o " " \o Spaces(pad)
                  /\ \A j \in 1..Len(es) : Len(es[k]) = Len(es[j])
             /\ \E k \in 1..Len(es) : es[k] = Enumerator(node, k) \o " "
    /\ AllItemsRendered =>
         LET node == wtree[wi]
         IN  \E width \in 1..8 :
               \A k \in 1..Len(node.items) :
                 /\ Len(ItemParagraph(k)) = Len(node.items[k].lines)
                 /\ \E pad \in 0..width :
                      /\ Len(Enumerator(node, k)) + 1 + pad = width
                      /\ ItemParagraph(k)[1] =
                           Enumerator(node, k) \o " " \o Spaces(pad)
                             \o node.items[k].lines[1]
                 /\ \A i \in 2..Len(node.items[k].lines) :
                      ItemParagraph(k)[i] = Spaces(width) \o node.items[k].lines[i]

\* start 1, lower-roman, three items: i, ii, iii, each as wide as 'iii. '
C19_Witness ==
    /\ JustEnumerated
    /\ wtree[wi].enumtype = "lowerroman"
    /\ wtree[wi].start = 1
    /\ wits[Len(wits)] = <<"i.   ", "ii.  ", "iii. ">>

\* a list whose numerals get wider: 9), 10), and the text of the first item's
\* second line under the first
C19_WitnessRendered ==
    /\ AllItemsRendered
    /\ wtree[wi].enumtype = "arabic"
    /\ wtree[wi].start = 9
    /\ ItemParagraph(1) = <<"9)  bar", "    more">>
    /\ ItemParagraph(2) = <<"10) baz">>

\* ---- properties of the description
Joined == wph = "joined"

\* the blocks the visitor rendered: the paragraphs that are not comments
RenderedAt == {k \in 1..Len(wparas) : wparas[k] # comment_token}

\* the next start line the loop pairs the k-th paragraph with
NextStart(k) == IF k < Len(wstarts) THEN wstarts[k + 1] ELSE 0

\* the k-th rendered block's place in the list of start lines
RECURSIVE NthRendered(_, _)
NthRendered(n, from) ==
    IF wparas[from] # comment_token
    THEN IF n = 1 THEN from ELSE NthRendered(n - 1, from + 1)
    ELSE NthRendered(n, from + 1)

\* the gap after the n-th rendered block has as many newlines as the next
\* block's line minus this block's line minus the newlines inside this block
GapSizedByLines(n) ==
    LET k == NthRendered(n, 1)
        size == NextStart(k) - wstarts[k] - (Len(wparas[k].lines) - 1)
    IN  wtext[2 * n] \in {Times("\n", size), Times(" \n", size)}

\* C20, as stated: the gap after each block is sized from the line numbers
C20_GapSizedByLines ==
    Joined => \A n \in 1..Cardinality(RenderedAt) : GapSizedByLines(n)

\* C20, amended: every block that is not a comment is followed by exactly
\* one blank line ('\n\n') whatever the line numbers of the source, and a
\* comment contributes neither text nor a gap
C20_GapIsOneBlankLine ==
    Joined =>
      /\ Len(wtext) = 2 * Cardinality(RenderedAt)
      /\ \A n \in 1..Cardinality(RenderedAt) :
           /\ wtext[2 * n - 1] = JoinLines(wparas[NthRendered(n, 1)].lines)
           /\ wtext[2 * n] = "\n\n"
      /\ wdoc = Concat(wtext)

\* the description of test_newlines: two blank lines of the source after the
\* literal block, one blank line of the description; no blank line between
\* the items of the source, one between the items of the description
C20_Witness ==
    /\ Joined
    /\ wtree = TestTree
    /\ wdoc = "Bar\nBaz\n\n- bar\n\n- baz\n\nquux:\n\n    hello\n\n1. bar\n\n2. baz\n\nii.  bar\n\niii. baz\n\n"

\* a comment between two paragraphs, two blank lines after it
C20_WitnessComment ==
    /\ Joined
    /\ Len(wtree) = 2
    /\ wtree[1].kind = "comment"
    /\ wtree[2].line = 4
    /\ wdoc = "Bar\n\n"

(***************************************************************************)
(* signature(func) for a function or a functools.partial around one: the   *)
(* inspect signature, the doc signature with the names of the docstring    *)
(* evaluated in a namespace, and the two merged.                           *)
(***************************************************************************)
\* the names every namespace resolves
Builtins == {"int", "str", "ValueError", "OSError"}

\* a function of one parameter bar: globals is its module's namespace, hint
\* the name of bar's annotation, docType the name its docstring gives as
\* bar's type ("" when it gives none), raises the names it declares with
\* :raises:
Function(globals, h, d, raises) ==
    [globals |-> globals, hint |-> h, docType |-> d, raises |-> raises]

\* the function itself, or functools.partial(func)
Plain(func) == [partial |-> FALSE, func |-> func]

PartialOf(func) == [partial |-> TRUE, func |-> func]

\* lines 477-478
_unwrap_partial(c) == IF c.partial THEN Plain(c.func) ELSE c

\* c.__globals__: a functools.partial object has no such attribute
Globals(c) ==
    IF c.partial
    THEN [err |-> RErr("AttributeError",
                       "'functools.partial' object has no attribute '__globals__'",
                       "", <<>>),
          ns |-> {}]
    ELSE [err |-> NoErr, ns |-> c.func.globals]

\* line 563: eval(name, globalns), g the namespace or the exception that
\* getting it raised
EvalIn(name, g) ==
    IF g.err # NoErr THEN RFail(g.err)
    ELSE IF name \in g.ns \cup Builtins THEN RType(Sc(name))
    ELSE RFail(RErr("NameError", "name is not defined", name, <<>>))

\* lines 481-506: the annotation of bar, from typing.get_type_hints of the
\* function unwrapped
_preprocess_inspect_signature(c) ==
    IF _unwrap_partial(c).func.hint = "" THEN RType(NoAnnotation)
    ELSE RType(_get_type_from_hint(Sc(_unwrap_partial(c).func.hint)))

\* lines 524-526: [_get_type_from_doc(name, func.__globals__) for name in
\* sig.raises]
RECURSIVE RaisesFrom(_, _, _, _)
RaisesFrom(c, names, i, acc) ==
    IF i > Len(names) THEN [err |-> NoErr, raises |-> acc]
    ELSE LET r == EvalIn(names[i], Globals(c))
         IN  IF r.err # NoErr THEN [err |-> r.err, raises |-> <<>>]
             ELSE RaisesFrom(c, names, i + 1, Append(acc, r.t))

\* lines 509-527: the parameter's doc type is evaluated in the globals of
\* the function unwrapped, the raises in func.__globals__
_preprocess_doc_signature(c) ==
    LET f == _unwrap_partial(c).func
        d == IF f.docType = "" THEN RType(NoAnnotation)
             ELSE EvalIn(f.docType, Globals(_unwrap_partial(c)))
        r == RaisesFrom(c, f.raises, 1, <<>>)
    IN  IF d.err # NoErr THEN [err |-> d.err, ann |-> NoAnnotation, raises |-> <<>>]
        ELSE [err |-> r.err, ann |-> d.t, raises |-> r.raises]

\* a Signature: the parameter's annotation and the raises, or the exception
MadeSignature(err, a, raises) == [err |-> err, ann |-> a, raises |-> raises]

NoSignature == MadeSignature(NoErr, NoAnnotation, <<>>)

\* lines 468-474: signature(func) for a callable
signature_of(c) ==
    LET h == _preprocess_inspect_signature(c)
        d == _preprocess_doc_signature(c)
        m == _merge_signatures("bar", h.t, d.ann, TRUE)
    IN  IF d.err # NoErr THEN MadeSignature(d.err, NoAnnotation, <<>>)
        ELSE IF m.err # NoErr THEN MadeSignature(m.err, NoAnnotation, <<>>)
        ELSE MadeSignature(NoErr, m.t, d.raises)

\* ---- signature(func) as a state machine
SigNames == {"int", "str", "Custom", "Missing"}

RaiseNames == {"ValueError", "MyError", "Missing"}

Namespaces == SUBSET {"Custom", "MyError"}

SigFunctions ==
    {Function(g, h, d, r) :
        g \in Namespaces, h \in {"", "int"}, d \in {""} \cup SigNames,
        r \in SeqsUpTo(RaiseNames, 0, MaxRaises)}

SigIdle ==
    /\ gfunc = Plain(Function({}, "", "", <<>>))
    /\ gpc = "idle"
    /\ ginspect = NoAnnotation
    /\ gdoc = NoSignature
    /\ gsig = NoSignature

SigInit ==
    /\ gfunc \in {Plain(f) : f \in SigFunctions}
                   \cup {PartialOf(f) : f \in SigFunctions}
    /\ gpc = "new"
    /\ ginspect = NoAnnotation
    /\ gdoc = NoSignature
    /\ gsig = NoSignature

\* lines 469-470
InspectSignature ==
    /\ gpc = "new"
    /\ ginspect' = _preprocess_inspect_signature(gfunc).t
    /\ gpc' = "inspected"
    /\ UNCHANGED <<gfunc, gdoc, gsig>>
    /\ UNCHANGED sigOthers

\* lines 471-472
DocSignature ==
    /\ gpc = "inspected"
    /\ gdoc' = _preprocess_doc_signature(gfunc)
    /\ IF gdoc'.err # NoErr
       THEN gpc' = "error" /\ gsig' = MadeSignature(gdoc'.err, NoAnnotation, <<>>)
       ELSE gpc' = "docd" /\ gsig' = gsig
    /\ UNCHANGED <<gfunc, ginspect>>
    /\ UNCHANGED sigOthers

\* line 473
MergeSignatures ==
    /\ gpc = "docd"
    /\ LET m == _merge_signatures("bar", ginspect, gdoc.ann, TRUE)
       IN  IF m.err # NoErr
           THEN gpc' = "error" /\ gsig' = MadeSignature(m.err, NoAnnotation, <<>>)
           ELSE gpc' = "done" /\ gsig' = MadeSignature(NoErr, m.t, gdoc.raises)
    /\ UNCHANGED <<gfunc, ginspect, gdoc>>
    /\ UNCHANGED sigOthers

SigNext ==
    \/ InspectSignature
    \/ DocSignature
    \/ MergeSignatures

\* ---- properties of signature(func)
SigEnded == gpc \in {"done", "error"}

\* C27, as stated: signature(partial(f)) ends as signature(f) does, with the
\* same annotation and the same raises, or with the same exception
C27_PartialAsWrapped ==
    (SigEnded /\ gfunc.partial) => gsig = signature_of(Plain(gfunc.func))

\* the part of it that holds: a partial of a function whose docstring
\* declares no :raises: ends as the function does
C27_PartialAsWrappedWithoutRaises ==
    (SigEnded /\ gfunc.partial /\ gfunc.func.raises = <<>>) =>
       gsig = signature_of(Plain(gfunc.func))

\* a partial of a function whose docstring declares :raises ValueError: ends
\* with AttributeError, although the function's signature is built
C27_PartialWithRaisesFails ==
    /\ gpc = "error"
    /\ gfunc.partial
    /\ gfunc.func.raises = <<"ValueError">>
    /\ gsig.err.exc = "AttributeError"
    /\ signature_of(Plain(gfunc.func)) = MadeSignature(NoErr, Sc("int"), <<Sc("ValueError")>>)

\* a partial whose docstring types bar with a name of the function's module
C27_PartialDocTypeResolved ==
    /\ gpc = "done"
    /\ gfunc.partial
    /\ gfunc.func.docType = "Custom"
    /\ gsig = MadeSignature(NoErr, Sc("Custom"), <<>>)

(***************************************************************************)
(* The specifications, one for each component.                             *)
(***************************************************************************)
\* _get_parser for one type, and calls of the parser
InitSynth ==
    SynthInit /\ ResolveIdle /\ CliIdle /\ DocIdle /\ BindIdle /\ NapIdle /\
    PipeIdle /\ WalkIdle /\ SigIdle

SpecSynth == InitSynth /\ [][SynthNext]_vars

\* signature() and the type checks for one parameter
InitResolve ==
    ResolveInit /\ SynthIdle /\ CliIdle /\ DocIdle /\ BindIdle /\ NapIdle /\
    PipeIdle /\ WalkIdle /\ SigIdle

SpecResolve == InitResolve /\ [][ResolveNext]_vars

\* run for one function whose parameter is a tuple or a list
InitTokensRun ==
    InitTokens /\ SynthIdle /\ ResolveIdle /\ DocIdle /\ BindIdle /\
    NapIdle /\ PipeIdle /\ WalkIdle /\ SigIdle

SpecTokens == InitTokensRun /\ [][CliNext]_vars

\* run for one or two functions, whatever their parameters' types
InitCliRun ==
    InitCli /\ SynthIdle /\ ResolveIdle /\ DocIdle /\ BindIdle /\ NapIdle /\
    PipeIdle /\ WalkIdle /\ SigIdle

SpecCli == InitCliRun /\ [][CliNext]_vars

\* run for one function whose parameter's type may nest containers
InitNestedRun ==
    InitNested /\ SynthIdle /\ ResolveIdle /\ DocIdle /\ BindIdle /\
    NapIdle /\ PipeIdle /\ WalkIdle /\ SigIdle

SpecNested == InitNestedRun /\ [][CliNext]_vars

\* run for one function and a parser table with one entry
InitOverrideRun ==
    InitOverride /\ SynthIdle /\ ResolveIdle /\ DocIdle /\ BindIdle /\
    NapIdle /\ PipeIdle /\ WalkIdle /\ SigIdle

SpecOverride == InitOverrideRun /\ [][CliNext]_vars

\* run for one function whose parameter is of any supported type, under each cli_options
InitKindsRun ==
    InitKinds /\ SynthIdle /\ ResolveIdle /\ DocIdle /\ BindIdle /\
    NapIdle /\ PipeIdle /\ WalkIdle /\ SigIdle

SpecKinds == InitKindsRun /\ [][CliNext]_vars

\* run for one function whose parameter is a bool, under each no_negated_flags
InitFlagsRun ==
    InitFlags /\ SynthIdle /\ ResolveIdle /\ DocIdle /\ BindIdle /\
    NapIdle /\ PipeIdle /\ WalkIdle /\ SigIdle

SpecFlags == InitFlagsRun /\ [][CliNext]_vars

\* run for one function of several parameters, with generated short flags or none
InitShortRun ==
    InitShort /\ SynthIdle /\ ResolveIdle /\ DocIdle /\ BindIdle /\
    NapIdle /\ PipeIdle /\ WalkIdle /\ SigIdle

SpecShort == InitShortRun /\ [][CliNext]_vars

\* run with the caller's parsers and short mappings
InitFrameRun ==
    InitFrame /\ SynthIdle /\ ResolveIdle /\ DocIdle /\ BindIdle /\
    NapIdle /\ PipeIdle /\ WalkIdle /\ SigIdle

SpecFrame == InitFrameRun /\ [][CliNext]_vars

\* _parse_docstring for a docstring in the canonical convention
InitDoc ==
    DocInit /\ SynthIdle /\ ResolveIdle /\ CliIdle /\ BindIdle /\ NapIdle /\
    PipeIdle /\ WalkIdle /\ SigIdle

SpecDoc == InitDoc /\ [][DocNext]_vars

\* _parse_docstring for a docstring in the Google or the Numpy convention
InitStyle ==
    StyleInit /\ SynthIdle /\ ResolveIdle /\ CliIdle /\ BindIdle /\
    NapIdle /\ PipeIdle /\ WalkIdle /\ SigIdle

SpecStyle == InitStyle /\ [][DocNext]_vars

\* bind(func)() for a function and the types its docstring declares
InitBind ==
    BindInit /\ SynthIdle /\ ResolveIdle /\ CliIdle /\ DocIdle /\ NapIdle /\
    PipeIdle /\ WalkIdle /\ SigIdle

SpecBind == InitBind /\ [][BindNext]_vars

\* the style normalizer over the lines of one docstring
InitNap ==
    NapInit /\ SynthIdle /\ ResolveIdle /\ CliIdle /\ DocIdle /\ BindIdle /\
    PipeIdle /\ WalkIdle /\ SigIdle

SpecNap == InitNap /\ [][NapNext]_vars

\* the style normalizer over docstrings with sections of items
InitFields ==
    FieldsInit /\ SynthIdle /\ ResolveIdle /\ CliIdle /\ DocIdle /\
    BindIdle /\ PipeIdle /\ WalkIdle /\ SigIdle

SpecFields == InitFields /\ [][NapNext]_vars

\* signature(doc) called by one thread, with cache_clear
InitMemo ==
    MemoInit /\ SynthIdle /\ ResolveIdle /\ CliIdle /\ DocIdle /\ BindIdle /\
    NapIdle /\ WalkIdle /\ SigIdle

SpecMemo == InitMemo /\ [][PipeNext]_vars

\* signature(doc) called by two threads
InitThreads ==
    ThreadsInit /\ SynthIdle /\ ResolveIdle /\ CliIdle /\ DocIdle /\
    BindIdle /\ NapIdle /\ WalkIdle /\ SigIdle

SpecThreads == InitThreads /\ [][PipeNext]_vars

\* one thread's parses, some of which raise, and the role registry
InitRoles ==
    RolesInit /\ SynthIdle /\ ResolveIdle /\ CliIdle /\ DocIdle /\
    BindIdle /\ NapIdle /\ WalkIdle /\ SigIdle

SpecRoles == InitRoles /\ [][RolesNext]_vars

\* the visitor's walk over one doctree, and the description joined
InitWalk ==
    WalkInit /\ SynthIdle /\ ResolveIdle /\ CliIdle /\ DocIdle /\ BindIdle /\
    NapIdle /\ PipeIdle /\ SigIdle

SpecWalk == InitWalk /\ [][WalkNext]_vars

\* the visitor's walk over doctrees with doctest blocks, rubrics and block quotes
InitQuote ==
    QuoteInit /\ SynthIdle /\ ResolveIdle /\ CliIdle /\ DocIdle /\
    BindIdle /\ NapIdle /\ PipeIdle /\ SigIdle

SpecQuote == InitQuote /\ [][QuoteNext]_vars

\* signature(func) for a function or a functools.partial
InitSig ==
    SigInit /\ SynthIdle /\ ResolveIdle /\ CliIdle /\ DocIdle /\ BindIdle /\
    NapIdle /\ PipeIdle /\ WalkIdle

SpecSig == InitSig /\ [][SigNext]_vars
====
